---- MODULE Spec2Model ----
(***************************************************************************)
(* Model of the background service (src/background.js): the download       *)
(* queue and its executor, filename synthesis, and the interception and    *)
(* re-fetch of API requests.                                                *)
(*                                                                         *)
(* JavaScript strings are sequences of one-character strings.  A           *)
(* JavaScript value is a record [t, s]: t = "string" carries the text in   *)
(* s, t = "undefined" is a missing value.                                  *)
(***************************************************************************)
EXTENDS Integers, Sequences, FiniteSets

VARIABLES
    downloadQueue,      \* this.downloadQueue
    isProcessingQueue,  \* this.isProcessingQueue
    handlers,           \* handleDownloadRequest calls suspended at their settings read
    loops,              \* processDownloadQueue calls between start and exit
    acks,               \* sendResponse values, in order of message arrival
    notifications,      \* chrome.notifications.create calls
    storage,            \* chrome.storage.sync contents (quality, autoCreateFolder)
    received,           \* the messages the listener has received, in order of arrival
    trace,              \* executor history: start / end / cool events
    fnIn,               \* arguments of a function called on its own
    fnOut,              \* its result
    fetches,            \* re-fetches in flight (fetchApiData awaiting fetch)
    tabMessages,        \* chrome.tabs.sendMessage calls
    refetchLog,         \* every re-fetch issued, with the event that caused it
    pageRequests,       \* number of page requests intercepted so far
    lastEvent,          \* the last interception or settling, with what came of it
    failed,             \* some re-fetch has failed
    mediaStore,         \* this.mediaStore of the downloader (document side)
    videoStore,         \* this.videoStore
    imageStore,         \* this.imageStore
    writes,             \* every set call on the three Maps, in order
    caught,             \* errors caught and logged by processApiData
    escaped,            \* an error has escaped processApiData
    delivered,          \* the last payload handed to the document side
    deliveries,         \* number of payloads handed over so far
    docQuality,         \* this.settings.quality of the downloader
    settingsLoaded,     \* loadSettings has settled
    resolution,         \* the last call of extractVideoUrl and its result
    extraction,         \* what the last pass over a container resolved
    isInitialized,      \* initialize() has run
    post,               \* the post of the document
    controls,           \* the injected controls inside the post
    retryTimers,        \* pending timers of processVideoWrappers for its wrapper
    contentChangeTimeout, \* this.contentChangeTimeout is pending
    observer,           \* this.observer is connected
    mainObserver,       \* this.mainObserver refers to a connected observer
    leakedObservers,    \* connected observers this.mainObserver no longer refers to
    intersectionObserver, \* this.intersectionObserver is connected
    hrefChanged,        \* window.location.href differs from currentUrl of the poll
    scanTimers,         \* pending timers of waitForContent, by attempts made
    reinitTimers,       \* pending timers set by a teardown
    navigations,        \* number of location changes so far
    pageEvent,          \* the last step of the page
    pollers,            \* pending checkPhotoSwipe loops of setupPhotoSwipeHandler
    clock,              \* ticks of 100 ms since the page was initialized
    debounceTimers,     \* pending timers of the closures of this.debounce, by due tick
    contentChangeDue,   \* the tick this.contentChangeTimeout is due at, where time is kept
    batchLog,           \* the ticks at which each observer was called with a batch
    passLog,            \* the ticks at which the timers of each observer ran a pass
    viewer,             \* the lightbox of the document
    topBar,             \* the controls in the top bar of the viewer, by bound URL
    lightboxTimers,     \* pending timers of the lightbox handlers
    slideObservers,     \* observers of observePhotoSwipeSlideChanges on the viewer
    button,             \* a download control of the page
    sentLog             \* the requests of its last click, as sent and as settled

vars == <<downloadQueue, isProcessingQueue, handlers, loops, acks,
          notifications, storage, received, trace, fnIn, fnOut,
          fetches, tabMessages, refetchLog, pageRequests, lastEvent, failed,
          mediaStore, videoStore, imageStore, writes, caught, escaped, delivered,
          deliveries, docQuality, settingsLoaded, resolution, extraction,
          isInitialized, post, controls, retryTimers, contentChangeTimeout, observer,
          mainObserver, leakedObservers, intersectionObserver, hrefChanged, scanTimers,
          reinitTimers, navigations, pageEvent, pollers, clock, debounceTimers,
          contentChangeDue, batchLog, passLog, viewer, topBar, lightboxTimers,
          slideObservers, button, sentLog>>

queueVars == <<downloadQueue, isProcessingQueue, handlers, loops, acks,
               notifications, storage, received, trace>>
fnVars == <<fnIn, fnOut>>
apiVars == <<fetches, tabMessages, refetchLog, pageRequests, lastEvent, failed>>
storeVars == <<mediaStore, videoStore, imageStore, writes, caught, escaped, delivered,
               deliveries>>
resolveVars == <<docQuality, settingsLoaded, resolution, extraction>>
pageVars == <<isInitialized, post, controls, retryTimers, contentChangeTimeout, observer,
              mainObserver, leakedObservers, intersectionObserver, hrefChanged,
              scanTimers, reinitTimers, navigations, pageEvent, pollers>>
timeVars == <<clock, debounceTimers, contentChangeDue, batchLog, passLog>>
lightboxVars == <<viewer, topBar, lightboxTimers, slideObservers>>
buttonVars == <<button, sentLog>>
docVars == <<storeVars, resolveVars, pageVars, timeVars, lightboxVars, buttonVars>>
baseVars == <<queueVars, fnVars, apiVars, storeVars, resolveVars>>

----------------------------------------------------------------------------
(* Bounds *)

MaxRequests == 2
MaxUrlLen == 3
MaxCreatorLen == 2
MaxNow == 1
MaxPageRequests == 2
MaxDeliveries == 2
MaxNavigations == 1
MaxRetryTimers == 2
MaxPollers == 2

----------------------------------------------------------------------------
(* Strings *)

Lower == {"a","b","c","d","e","f","g","h","i","j","k","l","m",
          "n","o","p","q","r","s","t","u","v","w","x","y","z"}
Upper == {"A","B","C","D","E","F","G","H","I","J","K","L","M",
          "N","O","P","Q","R","S","T","U","V","W","X","Y","Z"}
Digit == {"0","1","2","3","4","5","6","7","8","9"}

\* the character class [a-zA-Z0-9]
Alnum == Lower \cup Upper \cup Digit

JsString(s) == [s |-> s, t |-> "string"]
Undefined == [s |-> <<>>, t |-> "undefined"]

StringsUpTo(alphabet, n) == UNION {[1..k -> alphabet] : k \in 0..n}

\* position of the first occurrence of c in s, Len(s) + 1 when there is none
IndexOf(s, c) ==
    IF \E i \in 1..Len(s) : s[i] = c
    THEN CHOOSE i \in 1..Len(s) : s[i] = c /\ \A j \in 1..(i - 1) : s[j] # c
    ELSE Len(s) + 1

\* position of the last occurrence of c in s, 0 when there is none
LastIndexOf(s, c) ==
    IF \E i \in 1..Len(s) : s[i] = c
    THEN CHOOSE i \in 1..Len(s) : s[i] = c /\ \A j \in (i + 1)..Len(s) : s[j] # c
    ELSE 0

\* s.split(c)[0]
SplitFirst(s, c) == SubSeq(s, 1, IndexOf(s, c) - 1)

\* the last element of s.split(c)
SplitLast(s, c) == SubSeq(s, LastIndexOf(s, c) + 1, Len(s))

\* the replace without its g flag: only the first match is replaced
cleanCreatorFirstMatchOnly(s) ==
    [i \in 1..Len(s) |->
        IF s[i] \notin Alnum /\ \A j \in 1..(i - 1) : s[j] \in Alnum THEN "_" ELSE s[i]]

\* creator.replace(/[^a-zA-Z0-9]/g, '_')
cleanCreatorOf(s) == [i \in 1..Len(s) |-> IF s[i] \in Alnum THEN s[i] ELSE "_"]

DigitChars == <<"0","1","2","3","4","5","6","7","8","9">>

\* the decimal text of a natural number, as template interpolation gives it
RECURSIVE DecimalOf(_)
DecimalOf(n) ==
    IF n < 10 THEN <<DigitChars[n + 1]>>
    ELSE DecimalOf(n \div 10) \o <<DigitChars[(n % 10) + 1]>>

----------------------------------------------------------------------------
(* Filename synthesis *)

\* `download_${Date.now()}.file`
PlaceholderName(now) ==
    <<"d","o","w","n","l","o","a","d","_">> \o DecimalOf(now) \o <<".","f","i","l","e">>

\* generateFilename taking the last path segment of the whole url, the
\* query string included
generateFilenameKeepsQuery(url, creator, type, settings, now) ==
    IF url.t # "string" \/ creator.t # "string"
    THEN PlaceholderName(now)
    ELSE LET filename == SplitLast(url.s, "/")
             cleanCreator == cleanCreatorOf(creator.s)
         IN  IF settings.autoCreateFolder
             THEN cleanCreator \o <<"/">> \o filename
             ELSE filename

\* generateFilename(url, creator, type, settings); now is the value of
\* Date.now() should the catch block run.  url.split and creator.replace
\* throw a TypeError on a value that is not a string.
generateFilename(url, creator, type, settings, now) ==
    IF url.t # "string" \/ creator.t # "string"
    THEN PlaceholderName(now)
    ELSE LET urlParts == SplitFirst(url.s, "?")
             filename == SplitLast(urlParts, "/")
             cleanCreator == cleanCreatorOf(creator.s)
         IN  IF settings.autoCreateFolder
             THEN cleanCreator \o <<"/">> \o filename
             ELSE filename

Times == 0..MaxNow
Types == {"download", "download video"}

UrlAlphabet == {"a", ".", "/", "?"}
CreatorAlphabet == {"a", "Z", "7", "_", " ", "#", "/"}
JaneDoe == <<"J","a","n","e"," ","D","o","e","#","1">>

UrlInputs == {JsString(s) : s \in StringsUpTo(UrlAlphabet, MaxUrlLen)}
Bob == <<"B","o","b">>

CreatorInputs ==
    {JsString(s) : s \in StringsUpTo(CreatorAlphabet, MaxCreatorLen) \cup {JaneDoe, Bob}}
        \cup {Undefined}

NoCall == [now |-> 0, url |-> Undefined, creator |-> Undefined,
           type |-> "download", settings |-> [autoCreateFolder |-> TRUE]]

\* one call of generateFilename on the arguments drawn by InitFilename
GenerateFilenameCall ==
    /\ fnOut = <<>>
    /\ fnOut' = <<generateFilename(fnIn.url, fnIn.creator, fnIn.type,
                                    fnIn.settings, fnIn.now)>>
    /\ UNCHANGED <<fnIn, queueVars, apiVars, docVars>>
----------------------------------------------------------------------------
(* Download requests, queue and executor *)

U1 == <<"h","/","a",".","j">>
U2 == <<"h","/","b","?","k">>

\* A message is an array of at least three elements ("array"), a shorter
\* array ("short") or a value that is not an array ("other").
ArrayMessage(url, creator, type) ==
    [url |-> url, creator |-> creator, type |-> type, shape |-> "array"]

DownloadMessages ==
    { ArrayMessage(JsString(U1), JsString(Bob), "download"),
      ArrayMessage(JsString(U2), Undefined, "download video"),
      ArrayMessage(JsString(<<>>), JsString(Bob), "download"),
      ArrayMessage(Undefined, JsString(Bob), "download video"),
      [url |-> JsString(U1), creator |-> Undefined, type |-> "download", shape |-> "short"],
      [url |-> Undefined, creator |-> Undefined, type |-> "download", shape |-> "other"] }

\* JavaScript truthiness of a url: a missing value and '' are falsy
Truthy(v) == v.t = "string" /\ v.s # <<>>

DefaultSettings == [autoCreateFolder |-> TRUE, quality |-> "full"]

FailedPrefix ==
    <<"F","a","i","l","e","d"," ","t","o"," ","d","o","w","n","l","o","a","d"," ">>

\* an entry of the executor history: the item concerned and, for "end",
\* what chrome.downloads.download came to
Event(e, download, outcome) == [e |-> e, download |-> download, outcome |-> outcome]

\* the listener of chrome.runtime.onMessage together with the part of
\* handleDownloadRequest that runs before its first await
OnMessage(message) ==
    /\ Len(received) < MaxRequests
    /\ received' = Append(received, message)
    /\ IF message.shape = "array"
       THEN /\ acks' = Append(acks, [success |-> TRUE, error |-> ""])
            /\ handlers' =
                  IF Truthy(message.url)
                  THEN handlers \cup {[url |-> message.url, creator |-> message.creator,
                                       type |-> message.type, id |-> Len(received) + 1]}
                  ELSE handlers
       ELSE /\ acks' = Append(acks, [success |-> FALSE, error |-> "Invalid message format"])
            /\ UNCHANGED handlers
    /\ UNCHANGED <<downloadQueue, isProcessingQueue, loops, notifications, storage,
                   trace, fnVars, apiVars, docVars>>

\* getUserSettings that returns the defaults whatever the store holds
getUserSettingsDefaultsOnly(readFails) == DefaultSettings

\* getUserSettings: the stored settings, the defaults when the read fails
getUserSettings(readFails) == IF readFails THEN DefaultSettings ELSE storage

\* SettingsRead with processDownloadQueue never setting isProcessingQueue
SettingsReadFlagNotSet(h, readFails, now) ==
    /\ h \in handlers
    /\ handlers' = handlers \ {h}
    /\ LET settings == getUserSettings(readFails)
           item == [url |-> h.url,
                    creator |-> h.creator, type |-> h.type,
                    filename |-> generateFilename(h.url, h.creator, h.type, settings, now),
                    id |-> h.id]
           pushed == Append(downloadQueue, item)
       IN  IF ~isProcessingQueue
           THEN /\ UNCHANGED isProcessingQueue
                /\ downloadQueue' = Tail(pushed)
                /\ loops' = Append(loops, [download |-> Head(pushed), pc |-> "transfer"])
                /\ trace' = Append(trace, Event("start", Head(pushed), ""))
           ELSE /\ downloadQueue' = pushed
                /\ UNCHANGED <<isProcessingQueue, loops, trace>>
    /\ UNCHANGED <<acks, notifications, storage, received, fnVars, apiVars, docVars>>

\* SettingsRead with a generateFilename that lets its TypeError escape into
\* the catch block of handleDownloadRequest
SettingsReadNamingThrows(h, readFails, now) ==
    /\ h \in handlers
    /\ handlers' = handlers \ {h}
    /\ LET settings == getUserSettings(readFails)
           item == [url |-> h.url,
                    creator |-> h.creator, type |-> h.type,
                    filename |-> generateFilename(h.url, h.creator, h.type, settings, now),
                    id |-> h.id]
           pushed == Append(downloadQueue, item)
       IN  IF h.url.t # "string" \/ h.creator.t # "string"
           THEN UNCHANGED <<downloadQueue, isProcessingQueue, loops, trace>>
           ELSE IF ~isProcessingQueue
           THEN /\ isProcessingQueue' = TRUE
                /\ downloadQueue' = Tail(pushed)
                /\ loops' = Append(loops, [download |-> Head(pushed), pc |-> "transfer"])
                /\ trace' = Append(trace, Event("start", Head(pushed), ""))
           ELSE /\ downloadQueue' = pushed
                /\ UNCHANGED <<isProcessingQueue, loops, trace>>
    /\ UNCHANGED <<acks, notifications, storage, received, fnVars, apiVars, docVars>>

\* handleDownloadRequest from the completion of its settings read: the
\* filename, the push, and processDownloadQueue up to its first await
\* (flag set, first item shifted and handed to executeDownload)
SettingsRead(h, readFails, now) ==
    /\ h \in handlers
    /\ handlers' = handlers \ {h}
    /\ LET settings == getUserSettings(readFails)
           item == [url |-> h.url,
                    creator |-> h.creator, type |-> h.type,
                    filename |-> generateFilename(h.url, h.creator, h.type, settings, now),
                    id |-> h.id]
           pushed == Append(downloadQueue, item)
       IN  IF ~isProcessingQueue
           THEN /\ isProcessingQueue' = TRUE
                /\ downloadQueue' = Tail(pushed)
                /\ loops' = Append(loops, [download |-> Head(pushed), pc |-> "transfer"])
                /\ trace' = Append(trace, Event("start", Head(pushed), ""))
           ELSE /\ downloadQueue' = pushed
                /\ UNCHANGED <<isProcessingQueue, loops, trace>>
    /\ UNCHANGED <<acks, notifications, storage, received, fnVars, apiVars, docVars>>

DownloadOutcomes == {"id", "none", "throws"}

RemoveAt(seq, i) == SubSeq(seq, 1, i - 1) \o SubSeq(seq, i + 1, Len(seq))

\* DownloadSettles with an executeDownload that has no try/catch: the error
\* ends the drain loop through its catch and finally blocks
DownloadSettlesUncaught(i, outcome) ==
    /\ i \in 1..Len(loops)
    /\ loops[i].pc = "transfer"
    /\ trace' = Append(trace, Event("end", loops[i].download, outcome))
    /\ IF outcome = "id"
       THEN /\ loops' = [loops EXCEPT ![i].pc = "cooldown"]
            /\ UNCHANGED isProcessingQueue
       ELSE /\ loops' = RemoveAt(loops, i)
            /\ isProcessingQueue' = FALSE
    /\ UNCHANGED <<downloadQueue, notifications, handlers, acks, storage, received,
                   fnVars, apiVars, docVars>>

\* DownloadSettles with a drain loop that has no cool-down timer
DownloadSettlesNoDelay(i, outcome) ==
    /\ i \in 1..Len(loops)
    /\ loops[i].pc = "transfer"
    /\ notifications' =
          IF outcome = "id" THEN notifications
          ELSE Append(notifications,
                      [message |-> FailedPrefix \o loops[i].download.filename,
                       title |-> "Download Failed"])
    /\ IF Len(downloadQueue) > 0
       THEN /\ downloadQueue' = Tail(downloadQueue)
            /\ loops' = [loops EXCEPT ![i] = [download |-> Head(downloadQueue),
                                              pc |-> "transfer"]]
            /\ trace' = trace \o <<Event("end", loops[i].download, outcome),
                                   Event("start", Head(downloadQueue), "")>>
            /\ UNCHANGED isProcessingQueue
       ELSE /\ isProcessingQueue' = FALSE
            /\ loops' = RemoveAt(loops, i)
            /\ trace' = Append(trace, Event("end", loops[i].download, outcome))
            /\ UNCHANGED downloadQueue
    /\ UNCHANGED <<handlers, acks, storage, received, fnVars, apiVars, docVars>>

\* executeDownload from the settling of chrome.downloads.download, then
\* the drain loop up to its cool-down timer
DownloadSettles(i, outcome) ==
    /\ i \in 1..Len(loops)
    /\ loops[i].pc = "transfer"
    /\ notifications' =
          IF outcome = "id" THEN notifications
          ELSE Append(notifications,
                      [message |-> FailedPrefix \o loops[i].download.filename,
                       title |-> "Download Failed"])
    /\ loops' = [loops EXCEPT ![i].pc = "cooldown"]
    /\ trace' = Append(trace, Event("end", loops[i].download, outcome))
    /\ UNCHANGED <<downloadQueue, isProcessingQueue, handlers, acks, storage, received,
                   fnVars, apiVars, docVars>>


\* CooldownElapses with an if in place of the while: the loop ends after
\* its first item whatever is still queued
CooldownElapsesExitsLoop(i) ==
    /\ i \in 1..Len(loops)
    /\ loops[i].pc = "cooldown"
    /\ isProcessingQueue' = FALSE
    /\ loops' = RemoveAt(loops, i)
    /\ trace' = Append(trace, Event("cool", loops[i].download, ""))
    /\ UNCHANGED <<downloadQueue, handlers, acks, notifications, storage, received,
                   fnVars, apiVars, docVars>>

\* the drain loop from the firing of its 100 ms timer: the loop condition,
\* then either the next shift and executeDownload, or the finally block
CooldownElapses(i) ==
    /\ i \in 1..Len(loops)
    /\ loops[i].pc = "cooldown"
    /\ IF Len(downloadQueue) > 0
       THEN /\ downloadQueue' = Tail(downloadQueue)
            /\ loops' = [loops EXCEPT ![i] = [download |-> Head(downloadQueue),
                                              pc |-> "transfer"]]
            /\ trace' = trace \o <<Event("cool", loops[i].download, ""),
                                   Event("start", Head(downloadQueue), "")>>
            /\ UNCHANGED isProcessingQueue
       ELSE /\ isProcessingQueue' = FALSE
            /\ loops' = RemoveAt(loops, i)
            /\ trace' = Append(trace, Event("cool", loops[i].download, ""))
            /\ UNCHANGED downloadQueue
    /\ UNCHANGED <<handlers, acks, notifications, storage, received, fnVars, apiVars, docVars>>

\* the popup's handleFolderChange: saveSettings writes the checkbox value
handleFolderChange(enabled) ==
    /\ storage.autoCreateFolder # enabled
    /\ storage' = [storage EXCEPT !.autoCreateFolder = enabled]
    /\ UNCHANGED <<downloadQueue, isProcessingQueue, handlers, loops, acks,
                   notifications, received, trace, fnVars, apiVars, docVars>>

\* the onSuspend listener: cleanup() empties the queue and clears the flag;
\* the promises of a drain loop that is waiting are not touched, and the
\* service runs on when the suspension is cancelled
cleanup ==
    /\ downloadQueue' = <<>>
    /\ isProcessingQueue' = FALSE
    /\ UNCHANGED <<handlers, loops, acks, notifications, storage, received, trace,
                   fnVars, apiVars, docVars>>

\* the popup's handleQualityChange: saveSettings writes the chosen quality
handleQualityChange(quality) ==
    /\ storage.quality # quality
    /\ storage' = [storage EXCEPT !.quality = quality]
    /\ UNCHANGED <<downloadQueue, isProcessingQueue, handlers, loops, acks,
                   notifications, received, trace, fnVars, apiVars, docVars>>
----------------------------------------------------------------------------
(* Interception and re-fetch of API requests *)

\* s.includes(sub)
Includes(s, sub) ==
    \E i \in 1..(Len(s) - Len(sub) + 1) : SubSeq(s, i, i + Len(sub) - 1) = sub

\* '#trilobite'
Trilobite == <<"#","t","r","i","l","o","b","i","t","e">>
\* 'messages'
MessagesWord == <<"m","e","s","s","a","g","e","s">>
\* 'onlyfans.com/api2/v2/'
ApiPrefix == <<"o","n","l","y","f","a","n","s",".","c","o","m","/","a","p","i","2","/","v","2","/">>
\* 'onlyfans.com/'
SitePrefix == <<"o","n","l","y","f","a","n","s",".","c","o","m","/">>
EndpointNames == {<<"u","s","e","r","s">>, <<"p","o","s","t","s">>, <<"c","h","a","t","s">>}

\* /(onlyfans\.com\/api2\/v2\/(users|posts|chats)|onlyfans\.com\/[0-9]+\/)/
isRelevantEndpoint(url) ==
    \/ \E name \in EndpointNames : Includes(url, ApiPrefix \o name)
    \/ \E i \in 1..Len(url), j \in 1..Len(url) :
          /\ i + Len(SitePrefix) <= j
          /\ SubSeq(url, i, i + Len(SitePrefix) - 1) = SitePrefix
          /\ \A k \in (i + Len(SitePrefix))..(j - 1) : url[k] \in Digit
          /\ j > i + Len(SitePrefix)
          /\ url[j] = "/"

\* 'https://onlyfans.com/api2/v2/users/7'
UsersUrl == <<"h","t","t","p","s",":","/","/","o","n","l","y","f","a","n","s",".","c","o","m","/","a","p","i","2","/","v","2","/","u","s","e","r","s","/","7">>
\* 'https://onlyfans.com/api2/v2/chats/7/messages'
ChatMessagesUrl == <<"h","t","t","p","s",":","/","/","o","n","l","y","f","a","n","s",".","c","o","m","/","a","p","i","2","/","v","2","/","c","h","a","t","s","/","7","/","m","e","s","s","a","g","e","s">>
\* 'https://onlyfans.com/42/'
NumericUrl == <<"h","t","t","p","s",":","/","/","o","n","l","y","f","a","n","s",".","c","o","m","/","4","2","/">>
\* 'https://onlyfans.com/my/'
OtherUrl == <<"h","t","t","p","s",":","/","/","o","n","l","y","f","a","n","s",".","c","o","m","/","m","y","/">>

ExcludedHeaders ==
    {"Sec-Fetch-Site", "Sec-Fetch-Mode", "Sec-Fetch-Dest", "Sec-Fetch-User", "DNT",
     "User-Agent"}

Header(name, value) == [name |-> name, value |-> value]

MaxOf(S) == CHOOSE x \in S : \A y \in S : y <= x

\* extractHeaders: an object keyed by header name; a later header of the
\* same name overwrites an earlier one
extractHeaders(requestHeaders) ==
    LET kept == {i \in 1..Len(requestHeaders) :
                    requestHeaders[i].name \notin ExcludedHeaders}
        names == {requestHeaders[i].name : i \in kept}
    IN  [n \in names |->
            requestHeaders[MaxOf({i \in kept : requestHeaders[i].name = n})].value]

\* a JSON id: absent, a number or a string (the decimal text of v)
NoId == [t |-> "undefined", v |-> 0]
NumId(n) == [t |-> "number", v |-> n]
StrId(n) == [t |-> "string", v |-> n]
IdTruthy(id) == id.t = "string" \/ (id.t = "number" /\ id.v # 0)

\* JSON values as the normalizer sees them: null, a string, an array of
\* posts, or an object with an optional list, id and media
Json(type, items, hasList, list, id, mediaIsArray, media) ==
    [type |-> type, id |-> id, items |-> items, hasList |-> hasList, list |-> list,
     mediaIsArray |-> mediaIsArray, media |-> media]
JsonNull == Json("null", <<>>, FALSE, <<>>, NoId, FALSE, <<>>)
JsonString == Json("string", <<>>, FALSE, <<>>, NoId, FALSE, <<>>)
JsonArray(items) == Json("array", items, FALSE, <<>>, NoId, FALSE, <<>>)
JsonObject(hasList, list, id, mediaIsArray, media) ==
    Json("object", <<>>, hasList, list, id, mediaIsArray, media)

\* processApiResponse; reading data.list of null throws, and the catch
\* block returns null
processApiResponse(data) ==
    IF data.type = "array" THEN data
    ELSE IF data.type = "null" THEN JsonNull
    ELSE IF data.type = "object" /\ data.hasList THEN JsonArray(data.list)
    ELSE IF data.type = "object" /\ IdTruthy(data.id) /\ data.mediaIsArray THEN data
    ELSE JsonNull

\* a post-like object: its id and its media, which may not be an array
Post(id, mediaIsArray, media) == [id |-> id, mediaIsArray |-> mediaIsArray, media |-> media]

Payloads ==
    { JsonNull, JsonString, JsonObject(FALSE, <<>>, NoId, FALSE, <<>>),
      JsonArray(<<Post(NumId(1), FALSE, <<>>)>>),
      JsonObject(TRUE, <<Post(NumId(1), FALSE, <<>>)>>, NoId, FALSE, <<>>),
      JsonObject(FALSE, <<>>, NumId(1), TRUE, <<>>) }

FetchFailures == {"network error", "http error", "malformed json"}

\* what the fetch of fetchApiData comes to: a failure, or a parsed body; a
\* response with a non-2xx status may carry a body that parses
FetchResults ==
    {[ok |-> FALSE, failure |-> f, json |-> JsonNull] :
        f \in FetchFailures \ {"http error"}}
        \cup {[ok |-> FALSE, failure |-> "http error", json |-> JsonArray(<<Post(NumId(1), FALSE, <<>>)>>)]}
        \cup {[ok |-> TRUE, failure |-> "", json |-> p] : p \in Payloads}

\* fetchApiData without the response.ok check
fetchApiDataIgnoresStatus(result) ==
    IF result.ok \/ result.failure = "http error" THEN result.json ELSE JsonNull

\* fetchApiData from the settling of its fetch: null on any failure
fetchApiData(result) == IF result.ok THEN result.json ELSE JsonNull

\* sendToContentScript after fetchApiData has settled: whether the apiData
\* message is sent ("sent") or the function returns early ("dropped")
sendToContentScript(result) ==
    LET response == fetchApiData(result)
        data == processApiResponse(response)
    IN  IF response.type = "null" \/ data.type = "null" THEN "dropped" ELSE "sent"

TabIds == {-1, 1, 2}
PageUrls == {UsersUrl, ChatMessagesUrl, NumericUrl, OtherUrl, NumericUrl \o Trilobite}
HeaderLists ==
    { <<Header("Accept", "json"), Header("User-Agent", "ua")>>,
      <<Header("user-agent", "ua"), Header("Accept", "html"), Header("Accept", "json")>> }

Details(tabId, url, requestHeaders) ==
    [url |-> url, requestHeaders |-> requestHeaders, tabId |-> tabId]

NoDetails == Details(0, <<>>, <<>>)
NoResult == [ok |-> TRUE, failure |-> "", json |-> JsonNull]

\* the checks a request passes before handleApiRequest re-fetches it
PassesChecks(details) ==
    /\ details.tabId >= 0
    /\ ~Includes(details.url, Trilobite)
    /\ isRelevantEndpoint(details.url)

\* an interception or a settling: whether the request passed the checks,
\* whether the re-fetch succeeded, and what came of it
ApiEvent(kind, details, result, outcome) ==
    [outcome |-> outcome, ok |-> result.ok, kind |-> kind, passes |-> PassesChecks(details)]

\* handleApiRequest without its first check (tab id and re-fetch marker)
handleApiRequestUnguarded(details, origin, inFlight) ==
    IF ~isRelevantEndpoint(details.url)
    THEN /\ fetches' = inFlight /\ UNCHANGED refetchLog
         /\ lastEvent' = ApiEvent("request", details, NoResult, "skipped")
    ELSE LET headers == extractHeaders(details.requestHeaders)
         IN  /\ fetches' = Append(inFlight,
                    [url |-> details.url, tabId |-> details.tabId,
                     headers |-> headers, fetchUrl |-> details.url \o Trilobite, seen |-> FALSE])
             /\ refetchLog' = Append(refetchLog, [details |-> details, origin |-> origin])
             /\ lastEvent' = ApiEvent("request", details, NoResult, "issued")

\* handleApiRequest up to the fetch call of fetchApiData (reached through
\* sendToContentScript); inFlight is the list of re-fetches the new one
\* joins, origin records what sent the intercepted request
handleApiRequest(details, origin, inFlight) ==
    IF details.tabId < 0 \/ Includes(details.url, Trilobite)
    THEN /\ fetches' = inFlight /\ UNCHANGED refetchLog
         /\ lastEvent' = ApiEvent("request", details, NoResult, "skipped")
    ELSE IF ~isRelevantEndpoint(details.url)
    THEN /\ fetches' = inFlight /\ UNCHANGED refetchLog
         /\ lastEvent' = ApiEvent("request", details, NoResult, "skipped")
    ELSE LET headers == extractHeaders(details.requestHeaders)
         IN  /\ fetches' = Append(inFlight,
                    [url |-> details.url, tabId |-> details.tabId,
                     headers |-> headers, fetchUrl |-> details.url \o Trilobite, seen |-> FALSE])
             /\ refetchLog' = Append(refetchLog, [details |-> details, origin |-> origin])
             /\ lastEvent' = ApiEvent("request", details, NoResult, "issued")

\* onSendHeaders for a request made by a page or another context
PageRequest(details) ==
    /\ pageRequests < MaxPageRequests
    /\ pageRequests' = pageRequests + 1
    /\ handleApiRequest(details, "page", fetches)
    /\ UNCHANGED <<tabMessages, failed, queueVars, fnVars, docVars>>

\* the headers object of a fetch as a header list, in some order
HeaderListOf(headers) ==
    CHOOSE l \in [1..Cardinality(DOMAIN headers) ->
                     {Header(n, headers[n]) : n \in DOMAIN headers}] :
        \A n \in DOMAIN headers : \E i \in DOMAIN l : l[i].name = n

\* onSendHeaders for the service's own re-fetch: a request that belongs to
\* no tab; the host reports its URL with or without the fragment
RefetchObserved(i, keepsFragment) ==
    /\ i \in 1..Len(fetches)
    /\ ~fetches[i].seen
    /\ handleApiRequest(
          Details(-1, IF keepsFragment THEN fetches[i].fetchUrl ELSE fetches[i].url,
                  HeaderListOf(fetches[i].headers)),
          "refetch", [fetches EXCEPT ![i].seen = TRUE])
    /\ UNCHANGED <<tabMessages, pageRequests, failed, queueVars, fnVars, docVars>>

\* a settling that takes the tab and the headers of the re-fetch issued last,
\* as fields shared by all calls would give them
FetchSettlesSharedFields(i, result) ==
    /\ i \in 1..Len(fetches)
    /\ fetches' = RemoveAt(fetches, i)
    /\ IF sendToContentScript(result) = "dropped"
       THEN UNCHANGED tabMessages
       ELSE tabMessages' = Append(tabMessages,
                [type |-> "apiData", data |-> processApiResponse(fetchApiData(result)),
                 tabId |-> fetches[Len(fetches)].tabId,
                 headers |-> fetches[i].headers,
                 isForDm |-> Includes(fetches[i].url, MessagesWord)])
    /\ lastEvent' = ApiEvent("settle", NoDetails, result, sendToContentScript(result))
    /\ failed' = (failed \/ ~result.ok)
    /\ UNCHANGED <<refetchLog, pageRequests, queueVars, fnVars, docVars>>

\* sendToContentScript from the settling of fetchApiData
FetchSettles(i, result) ==
    /\ i \in 1..Len(fetches)
    /\ fetches' = RemoveAt(fetches, i)
    /\ IF sendToContentScript(result) = "dropped"
       THEN UNCHANGED tabMessages
       ELSE tabMessages' = Append(tabMessages,
                [type |-> "apiData", data |-> processApiResponse(fetchApiData(result)),
                 tabId |-> fetches[i].tabId,
                 headers |-> fetches[i].headers,
                 isForDm |-> Includes(fetches[i].url, MessagesWord)])
    /\ lastEvent' = ApiEvent("settle", NoDetails, result, sendToContentScript(result))
    /\ failed' = (failed \/ ~result.ok)
    /\ UNCHANGED <<refetchLog, pageRequests, queueVars, fnVars, docVars>>
----------------------------------------------------------------------------
(* The document side (src/popup.js): the stores filled from apiData messages *)

\* media URLs: short texts, the empty text for a missing or empty field
UrlA == <<"a">>
UrlAx == <<"a", "?", "x">>
UrlAy == <<"a", "?", "y">>
UrlAxy == <<"a", "?", "x", "?", "y">>
UrlB == <<"b">>
UrlBx == <<"b", "?", "x">>
UrlC == <<"c">>
NoUrl == <<>>

\* one entry of a post's media array
Media(type, preview, squarePreview, thumb, src, source, vs240, vs720) ==
    [type |-> type, preview |-> preview, squarePreview |-> squarePreview, thumb |-> thumb,
     src |-> src, source |-> source, vs240 |-> vs240, vs720 |-> vs720]

\* cleanUrl that cuts at the last '?' instead of the first
cleanUrlAtLastQuery(url) ==
    IF url = NoUrl THEN url
    ELSE IF LastIndexOf(url, "?") = 0 THEN url
    ELSE SubSeq(url, 1, LastIndexOf(url, "?") - 1)

\* cleanUrl: url ? url.split('?')[0] : url
cleanUrl(url) == IF url = NoUrl THEN url ELSE SplitFirst(url, "?")

MapSetAlone(map, key, value) == [k \in {key} |-> value]

\* Map.prototype.set
MapSet(map, key, value) ==
    [k \in DOMAIN map \cup {key} |-> IF k = key THEN value ELSE map[k]]

\* the three Maps of the downloader with the history of their set calls
\* and the outcome of the try blocks: errors caught and logged, errors escaped
Stores(media, video, image, log, logged, thrown) ==
    [mediaStore |-> media, videoStore |-> video, imageStore |-> image, writes |-> log,
     caught |-> logged, escaped |-> thrown]

\* store.set(key, value) on one of the Maps; raw is the text the key was made from
Write(st, store, raw, key, value) ==
    [st EXCEPT ![store] = MapSet(@, key, value),
               !.writes = Append(@, [value |-> value, key |-> key, store |-> store, raw |-> raw])]

\* what imageStore holds: the videoMap object of a video, the src of an image
VideoMap(full, q240, q720) ==
    [kind |-> "videoMap", src |-> NoUrl, full |-> full, q240 |-> q240, q720 |-> q720]
ImageSrc(src) == [kind |-> "src", src |-> src, full |-> NoUrl, q240 |-> NoUrl, q720 |-> NoUrl]

\* [media.preview, media.squarePreview, media.thumb].filter(Boolean)
previewsOf(media) ==
    SelectSeq(<<media.preview, media.squarePreview, media.thumb>>, LAMBDA u : u # NoUrl)

\* previews.forEach(preview => this.imageStore.set(this.cleanUrl(preview), value))
RECURSIVE setEachPreview(_, _, _)
setEachPreview(st, previews, value) ==
    IF previews = <<>> THEN st
    ELSE setEachPreview(Write(st, "imageStore", Head(previews), cleanUrl(Head(previews)), value),
                        Tail(previews), value)

processVideoMedia(st, media) ==
    setEachPreview(st, previewsOf(media), VideoMap(media.source, media.vs240, media.vs720))

processImageMedia(st, media) ==
    IF media.src = NoUrl THEN st
    ELSE setEachPreview(st, previewsOf(media), ImageSrc(media.src))

\* item.media.forEach(...)
RECURSIVE forEachMedia(_, _)
forEachMedia(st, mediaList) ==
    IF mediaList = <<>> THEN st
    ELSE forEachMedia(IF Head(mediaList).type = "video"
                      THEN processVideoMedia(st, Head(mediaList))
                      ELSE processImageMedia(st, Head(mediaList)),
                      Tail(mediaList))

\* processMediaItem that keeps the record a post id already has
processMediaItemKeepsFirst(st, item, store) ==
    LET stored == IF IdTruthy(item.id) /\ item.id \notin DOMAIN st[store]
                  THEN Write(st, store, item.id, item.id, item) ELSE st
    IN  IF item.mediaIsArray THEN forEachMedia(stored, item.media) ELSE stored

processMediaItem(st, item, store) ==
    LET stored == IF IdTruthy(item.id) THEN Write(st, store, item.id, item.id, item) ELSE st
    IN  IF item.mediaIsArray THEN forEachMedia(stored, item.media) ELSE stored

\* data.forEach(item => this.processMediaItem(item, store))
RECURSIVE forEachItem(_, _, _)
forEachItem(st, items, store) ==
    IF items = <<>> THEN st
    ELSE forEachItem(processMediaItem(st, Head(items), store), Tail(items), store)

\* processApiData that records chat and feed payloads in the one feed store
processApiDataOneStore(st, data, isForDm) ==
    LET store == "mediaStore"
    IN  IF data.type = "array" THEN forEachItem(st, data.items, store)
        ELSE IF data.type = "null" THEN [st EXCEPT !.caught = @ + 1]
        ELSE IF data.type = "object" /\ IdTruthy(data.id) /\ data.mediaIsArray
        THEN processMediaItem(st, Post(data.id, data.mediaIsArray, data.media), store)
        ELSE st

\* processApiData without its try block
processApiDataNoCatch(st, data, isForDm) ==
    LET store == IF isForDm THEN "videoStore" ELSE "mediaStore"
    IN  IF data.type = "array" THEN forEachItem(st, data.items, store)
        ELSE IF data.type = "null" THEN [st EXCEPT !.escaped = TRUE]
        ELSE IF data.type = "object" /\ IdTruthy(data.id) /\ data.mediaIsArray
        THEN processMediaItem(st, Post(data.id, data.mediaIsArray, data.media), store)
        ELSE st

\* processApiData; data.id of null throws, and the catch block logs it
processApiData(st, data, isForDm) ==
    LET store == IF isForDm THEN "videoStore" ELSE "mediaStore"
    IN  IF data.type = "array" THEN forEachItem(st, data.items, store)
        ELSE IF data.type = "null" THEN [st EXCEPT !.caught = @ + 1]
        ELSE IF data.type = "object" /\ IdTruthy(data.id) /\ data.mediaIsArray
        THEN processMediaItem(st, Post(data.id, data.mediaIsArray, data.media), store)
        ELSE st

\* the media entries and posts that payloads are built from
VideoA == Media("video", UrlAx, NoUrl, UrlB, NoUrl, <<"F">>, NoUrl, <<"H">>)
VideoA2 == Media("video", UrlAy, NoUrl, UrlAxy, NoUrl, <<"G">>, NoUrl, NoUrl)
VideoC == Media("video", UrlC, NoUrl, NoUrl, NoUrl, NoUrl, <<"L">>, NoUrl)
ImageA == Media("photo", UrlA, NoUrl, NoUrl, <<"S">>, NoUrl, NoUrl, NoUrl)
ImageB == Media("photo", UrlBx, NoUrl, NoUrl, NoUrl, NoUrl, NoUrl, NoUrl)

PostLists ==
    { <<Post(StrId(1), TRUE, <<VideoA, ImageA>>)>>,
      <<Post(StrId(1), TRUE, <<VideoA2>>), Post(NumId(2), TRUE, <<VideoC, ImageB>>)>>,
      <<Post(NumId(2), TRUE, <<ImageA>>), Post(NumId(2), FALSE, <<>>)>>,
      <<Post(NoId, TRUE, <<VideoA2>>)>> }

\* a post as the body of a single-post endpoint
SingleObject(item) == JsonObject(FALSE, <<>>, item.id, item.mediaIsArray, item.media)
\* posts in a {list: [...]} envelope
ListEnvelope(posts) == JsonObject(TRUE, posts, NoId, FALSE, <<>>)

EmptyObject == JsonObject(FALSE, <<>>, NoId, FALSE, <<>>)
MalformedPayloads == {EmptyObject, JsonNull, JsonString}

StorePayloads ==
    {JsonArray(posts) : posts \in PostLists}
        \cup {ListEnvelope(posts) : posts \in PostLists}
        \cup {SingleObject(posts[1]) : posts \in PostLists}
        \cup MalformedPayloads

Delivery(via, payload, isForDm) == [isForDm |-> isForDm, via |-> via, payload |-> payload]

CurrentStores == Stores(mediaStore, videoStore, imageStore, writes, caught, escaped)

StoresBecome(st) ==
    /\ mediaStore' = st.mediaStore
    /\ videoStore' = st.videoStore
    /\ imageStore' = st.imageStore
    /\ writes' = st.writes
    /\ caught' = st.caught
    /\ escaped' = st.escaped

\* a response body on its way through the service: processApiResponse, the
\* apiData message when the result is not null, and the listener of the
\* document side with processApiData
RecordResponse(payload, isForDm) ==
    /\ deliveries < MaxDeliveries
    /\ deliveries' = deliveries + 1
    /\ delivered' = Delivery("service", payload, isForDm)
    /\ LET data == processApiResponse(payload)
       IN  IF data.type = "null" THEN StoresBecome(CurrentStores)
           ELSE StoresBecome(processApiData(CurrentStores, data, isForDm))
    /\ UNCHANGED <<resolveVars, pageVars, timeVars, lightboxVars,
                   buttonVars, queueVars, fnVars, apiVars>>

\* the runtime.onMessage listener of the document side receiving an apiData
\* message with any data
OnApiData(data, isForDm) ==
    /\ deliveries < MaxDeliveries
    /\ deliveries' = deliveries + 1
    /\ delivered' = Delivery("message", data, isForDm)
    /\ StoresBecome(processApiData(CurrentStores, data, isForDm))
    /\ UNCHANGED <<resolveVars, pageVars, timeVars, lightboxVars,
                   buttonVars, queueVars, fnVars, apiVars>>
----------------------------------------------------------------------------
(* URL resolution of a video wrapper (extractVideoUrl) *)

Qualities == {"full", "240", "720"}

\* what the queries of extractVideoUrl find in and around a video wrapper;
\* NoUrl and NoId stand for an element or attribute that is not there.
\* poster is the preview the wrapper shows, which no query looks at
Wrapper(poster, postId, hasVjs, original, anySource, vjsSrc, dataSrc, dataVideo, wrapperDataSrc, nestedSrc, looseData) ==
    [poster |-> poster, postId |-> postId, hasVjs |-> hasVjs, original |-> original,
     anySource |-> anySource, vjsSrc |-> vjsSrc, dataSrc |-> dataSrc,
     dataVideo |-> dataVideo, wrapperDataSrc |-> wrapperDataSrc,
     nestedSrc |-> nestedSrc, looseData |-> looseData]

\* qualityMap[this.settings.quality] || qualityMap.full
qualityUrl(media, quality) ==
    LET preferred == IF quality = "full" THEN media.source
                     ELSE IF quality = "240" THEN media.vs240
                     ELSE IF quality = "720" THEN media.vs720
                     ELSE NoUrl
    IN  IF preferred # NoUrl THEN preferred ELSE media.source

\* the loop over postData.media: the first video entry that gives a URL
RECURSIVE firstVideoUrl(_, _)
firstVideoUrl(mediaList, quality) ==
    IF mediaList = <<>> THEN NoUrl
    ELSE IF Head(mediaList).type = "video" /\ qualityUrl(Head(mediaList), quality) # NoUrl
    THEN qualityUrl(Head(mediaList), quality)
    ELSE firstVideoUrl(Tail(mediaList), quality)

\* a lookup that prefers the video entry whose preview the wrapper shows
storeLookupByPoster(wrapper, feedStore, quality) ==
    IF IdTruthy(wrapper.postId) /\ wrapper.postId \in DOMAIN feedStore
    THEN IF feedStore[wrapper.postId].mediaIsArray
         THEN LET shown(m) == m.type = "video" /\ cleanUrl(m.preview) = cleanUrl(wrapper.poster)
                  own == SelectSeq(feedStore[wrapper.postId].media, shown)
              IN  IF own # <<>> THEN firstVideoUrl(own, quality)
                  ELSE firstVideoUrl(feedStore[wrapper.postId].media, quality)
         ELSE NoUrl
    ELSE NoUrl

\* method 2 of extractVideoUrl: the lookup of the post's data-id in mediaStore
storeLookup(wrapper, feedStore, quality) ==
    IF IdTruthy(wrapper.postId) /\ wrapper.postId \in DOMAIN feedStore
    THEN IF feedStore[wrapper.postId].mediaIsArray
         THEN firstVideoUrl(feedStore[wrapper.postId].media, quality)
         ELSE NoUrl
    ELSE NoUrl

\* the first of the candidates that is there
RECURSIVE firstUrl(_)
firstUrl(candidates) ==
    IF candidates = <<>> THEN NoUrl
    ELSE IF Head(candidates) # NoUrl THEN Head(candidates)
    ELSE firstUrl(Tail(candidates))

\* extractVideoUrl; NoUrl is its null
extractVideoUrl(wrapper, feedStore, quality) ==
    firstUrl(<<IF wrapper.hasVjs THEN wrapper.original ELSE NoUrl,
               IF wrapper.hasVjs THEN wrapper.anySource ELSE NoUrl,
               IF wrapper.hasVjs THEN wrapper.vjsSrc ELSE NoUrl,
               storeLookup(wrapper, feedStore, quality),
               wrapper.dataSrc, wrapper.dataVideo, wrapper.wrapperDataSrc,
               wrapper.nestedSrc, wrapper.looseData>>)

\* a wrapper with nothing to resolve it by but its post
PlainWrapper(poster, postId) ==
    Wrapper(poster, postId, FALSE, NoUrl, NoUrl, NoUrl, NoUrl, NoUrl, NoUrl, NoUrl, NoUrl)

ResolveWrappers ==
    { PlainWrapper(UrlAx, StrId(1)), PlainWrapper(UrlC, StrId(1)),
      PlainWrapper(UrlC, StrId(2)), PlainWrapper(UrlA, NoId),
      Wrapper(UrlAx, StrId(1), TRUE, NoUrl, <<"O">>, NoUrl, NoUrl, NoUrl, NoUrl, NoUrl, NoUrl),
      Wrapper(UrlC, StrId(1), FALSE, NoUrl, NoUrl, NoUrl, NoUrl, <<"D">>, NoUrl, NoUrl, NoUrl) }

\* feed and chat payloads with one and with two videos in a post
ResolvePayloads ==
    { JsonArray(<<Post(StrId(1), TRUE, <<VideoA, ImageA>>)>>),
      JsonArray(<<Post(StrId(1), TRUE, <<VideoA, VideoC>>)>>),
      JsonArray(<<Post(StrId(1), TRUE, <<VideoC>>), Post(NumId(2), TRUE, <<VideoC>>)>>),
      SingleObject(Post(StrId(2), TRUE, <<Media("video", UrlC, NoUrl, NoUrl, NoUrl,
                                                NoUrl, NoUrl, NoUrl)>>)) }

Resolution(called, wrapper, quality, at, url) ==
    [url |-> url, quality |-> quality, wrapper |-> wrapper, called |-> called, at |-> at]

\* loadSettings once chrome.storage.sync.get has settled with a stored quality
loadSettings(quality) ==
    /\ ~settingsLoaded
    /\ settingsLoaded' = TRUE
    /\ docQuality' = quality
    /\ UNCHANGED <<resolution, extraction, storeVars, pageVars, timeVars, lightboxVars,
                   buttonVars, queueVars, fnVars, apiVars>>

\* loadSettings of initialize() against the store as it is: get() gives the
\* stored quality, or it rejects and this.settings stays what the
\* constructor made it
loadStoredSettings(readFails) ==
    loadSettings(IF readFails THEN docQuality ELSE storage.quality)

\* one call of extractVideoUrl from an injection pass
ResolveWrapper(wrapper) ==
    /\ resolution' = Resolution(TRUE, wrapper, docQuality, deliveries,
                                extractVideoUrl(wrapper, mediaStore, docQuality))
    /\ UNCHANGED <<docQuality, settingsLoaded, extraction, storeVars, pageVars, timeVars, lightboxVars,
                   buttonVars, queueVars, fnVars, apiVars>>
----------------------------------------------------------------------------
(* The resolution entry points over one container: extractVideoUrl and    *)
(* the four extractVideoUrlFrom... methods (src/popup.js)                  *)

\* 'http'
HttpWord == <<"h","t","t","p">>
Http(rest) == HttpWord \o rest

\* the data-src, data-video, data-url and data-source attributes of an element
DataAttrs(dataSrc, dataVideo, dataUrl, dataSource) ==
    [dataSrc |-> dataSrc, dataVideo |-> dataVideo, dataUrl |-> dataUrl,
     dataSource |-> dataSource]

NoData == DataAttrs(NoUrl, NoUrl, NoUrl, NoUrl)

\* a source element of the video
Source(label, src) == [src |-> src, label |-> label]

\* a container and the one video element it holds: the data-id of the post
\* around it, whether the video has the class vjs-tech, the video's src,
\* its source elements in document order, its data attributes, and the data
\* attributes of its ancestors, nearest first.  ancestors[1] is the container
\* itself: the div.video-wrapper or the player the entry points are handed
Container(postId, vjsTech, src, sources, data, ancestors) ==
    [data |-> data, src |-> src, postId |-> postId, vjsTech |-> vjsTech,
     sources |-> sources, ancestors |-> ancestors]

\* querySelector('source[label="original"]') and the .src of what it finds
RECURSIVE originalSrc(_)
originalSrc(sources) ==
    IF sources = <<>> THEN NoUrl
    ELSE IF Head(sources).label = "original" THEN Head(sources).src
    ELSE originalSrc(Tail(sources))

\* querySelector('source') and the .src of what it finds
anySrc(sources) == IF sources = <<>> THEN NoUrl ELSE Head(sources).src

\* the loop over querySelectorAll('source'): the first src that is not empty
RECURSIVE firstSrc(_)
firstSrc(sources) ==
    IF sources = <<>> THEN NoUrl
    ELSE IF Head(sources).src # NoUrl THEN Head(sources).src
    ELSE firstSrc(Tail(sources))

\* the data-src of the container itself
ownDataSrc(container) ==
    IF container.ancestors = <<>> THEN NoUrl ELSE container.ancestors[1].dataSrc

\* method 6 of extractVideoUrl on the one element with data attributes under
\* the wrapper: data-video || data-src || data-url, taken only with 'http'
looseDataUrl(data) ==
    LET videoUrl == firstUrl(<<data.dataVideo, data.dataSrc, data.dataUrl>>)
    IN  IF Includes(videoUrl, HttpWord) THEN videoUrl ELSE NoUrl

\* what the queries of extractVideoUrl find when the wrapper is this container
queries(container) ==
    Wrapper(NoUrl, container.postId, container.vjsTech,
            IF container.vjsTech THEN originalSrc(container.sources) ELSE NoUrl,
            IF container.vjsTech THEN anySrc(container.sources) ELSE NoUrl,
            IF container.vjsTech THEN container.src ELSE NoUrl,
            container.data.dataSrc, container.data.dataVideo, ownDataSrc(container),
            firstUrl(<<container.src, firstSrc(container.sources)>>),
            looseDataUrl(container.data))

\* extractVideoUrlFromElement on the video of the container
extractVideoUrlFromElement(container) ==
    firstUrl(<<originalSrc(container.sources), anySrc(container.sources), container.src,
               container.data.dataSrc, container.data.dataVideo>>)

\* a value that is there and includes 'http'
httpOnly(value) == IF Includes(value, HttpWord) THEN value ELSE NoUrl

\* the sources of the player whose src includes 'http'
RECURSIVE firstHttpSrc(_)
firstHttpSrc(sources) ==
    IF sources = <<>> THEN NoUrl
    ELSE IF Includes(Head(sources).src, HttpWord) THEN Head(sources).src
    ELSE firstHttpSrc(Tail(sources))

\* extractVideoUrlFromDimensionPlayer on the container as the player
extractVideoUrlFromDimensionPlayer(container) ==
    firstUrl(<<extractVideoUrlFromElement(container),
               IF container.vjsTech THEN extractVideoUrlFromElement(container) ELSE NoUrl,
               httpOnly(ownDataSrc(container)),
               httpOnly(IF container.ancestors = <<>> THEN NoUrl
                        ELSE container.ancestors[1].dataVideo),
               firstHttpSrc(container.sources)>>)

\* extractVideoUrlFromVideoJsPlayer on the container as the player
extractVideoUrlFromVideoJsPlayer(container) ==
    firstUrl(<<IF container.vjsTech THEN extractVideoUrlFromElement(container) ELSE NoUrl,
               extractVideoUrlFromElement(container),
               originalSrc(container.sources), anySrc(container.sources)>>)

\* const dataAttributes, read off one element with the test of the loop
attributeUrl(data) ==
    firstUrl(<<httpOnly(data.dataSrc), httpOnly(data.dataVideo),
               httpOnly(data.dataUrl), httpOnly(data.dataSource)>>)

\* the bound of the loop over the parents: while (parent && depth < 3)
maxDepth == 3

\* the loop over the parents from this depth on
RECURSIVE parentUrl(_, _, _)
parentUrl(ancestors, depth, limit) ==
    IF depth < Len(ancestors) /\ depth < limit
    THEN IF attributeUrl(ancestors[depth + 1]) # NoUrl
         THEN attributeUrl(ancestors[depth + 1])
         ELSE parentUrl(ancestors, depth + 1, limit)
    ELSE NoUrl

\* extractVideoUrlFromDataAttributes with one more parent looked at
extractVideoUrlFromDataAttributesDeeper(container) ==
    firstUrl(<<attributeUrl(container.data),
               parentUrl(container.ancestors, 0, maxDepth + 1)>>)

\* extractVideoUrlFromDataAttributes on the video of the container
extractVideoUrlFromDataAttributes(container) ==
    firstUrl(<<attributeUrl(container.data), parentUrl(container.ancestors, 0, maxDepth)>>)

\* what one pass of handleVideoPlayers got from a container: the URL of
\* extractVideoUrl and the URLs of the other four entry points, with the
\* quality in force and the number of deliveries at the time
Extraction(called, container, quality, at, url, fromElement, fromDimensionPlayer, fromVideoJsPlayer, fromDataAttributes) ==
    [url |-> url, quality |-> quality, called |-> called, at |-> at,
     container |-> container, fromElement |-> fromElement,
     fromDimensionPlayer |-> fromDimensionPlayer,
     fromVideoJsPlayer |-> fromVideoJsPlayer,
     fromDataAttributes |-> fromDataAttributes]

\* a container with a bare video element and no post around it
EmptyContainer == Container(NoId, FALSE, NoUrl, <<>>, NoData, <<NoData>>)

NoExtraction ==
    Extraction(FALSE, EmptyContainer, "full", 0, NoUrl, NoUrl, NoUrl, NoUrl, NoUrl)

\* handleVideoPlayers over one container that all five selectors match:
\* each process... method hands the container or its video to its entry point
handleVideoPlayersOn(container) ==
    /\ extraction' = Extraction(TRUE, container, docQuality, deliveries,
                                extractVideoUrl(queries(container), mediaStore, docQuality),
                                extractVideoUrlFromElement(container),
                                extractVideoUrlFromDimensionPlayer(container),
                                extractVideoUrlFromVideoJsPlayer(container),
                                extractVideoUrlFromDataAttributes(container))
    /\ UNCHANGED <<docQuality, settingsLoaded, resolution, storeVars, pageVars, timeVars, lightboxVars,
                   buttonVars, queueVars, fnVars, apiVars>>

UrlO == Http(<<"O">>)
UrlP == Http(<<"P">>)
UrlV == Http(<<"V">>)
UrlD == Http(<<"D">>)
UrlE == Http(<<"E">>)
\* '/v', a relative address
RelativeV == <<"/","v">>

\* containers of the feed: a video.js player with its sources, players whose
\* address is not attached yet, and videos that declare their address in a
\* data attribute of their own or of an element around them
ExtractContainers ==
    { Container(StrId(1), TRUE, NoUrl, <<Source("original", UrlO), Source("720", UrlP)>>, NoData, <<NoData>>),
      Container(StrId(1), TRUE, NoUrl, <<Source("720", UrlP), Source("original", UrlO)>>, NoData, <<NoData>>),
      Container(StrId(1), TRUE, UrlV, <<>>, NoData, <<NoData>>),
      Container(StrId(1), FALSE, UrlV, <<>>, NoData, <<NoData>>),
      Container(StrId(1), TRUE, NoUrl, <<>>, NoData, <<NoData>>),
      Container(NoId, TRUE, NoUrl, <<Source("720", NoUrl), Source("240", UrlP)>>, NoData, <<NoData>>),
      Container(NoId, TRUE, NoUrl, <<>>, DataAttrs(NoUrl, NoUrl, NoUrl, UrlD), <<NoData>>),
      Container(NoId, TRUE, NoUrl, <<>>, DataAttrs(NoUrl, NoUrl, UrlD, UrlP),
                <<DataAttrs(UrlE, NoUrl, NoUrl, NoUrl)>>),
      Container(NoId, TRUE, NoUrl, <<>>, DataAttrs(RelativeV, NoUrl, NoUrl, NoUrl),
                <<NoData, DataAttrs(NoUrl, UrlE, NoUrl, NoUrl)>>),
      Container(NoId, FALSE, NoUrl, <<>>, NoData,
                <<NoData, DataAttrs(NoUrl, NoUrl, NoUrl, UrlE), DataAttrs(UrlD, NoUrl, NoUrl, NoUrl)>>),
      Container(NoId, FALSE, NoUrl, <<>>, NoData,
                <<NoData, NoData, DataAttrs(NoUrl, NoUrl, UrlD, NoUrl), DataAttrs(UrlE, NoUrl, NoUrl, NoUrl)>>),
      Container(NoId, FALSE, NoUrl, <<>>, NoData,
                <<NoData, NoData, NoData, DataAttrs(UrlE, NoUrl, NoUrl, NoUrl)>>),
      Container(NoId, FALSE, NoUrl, <<>>, NoData,
                <<NoData, NoData, NoData, NoData, DataAttrs(NoUrl, UrlE, NoUrl, NoUrl)>>) }
----------------------------------------------------------------------------
(* The page: one post of the feed, the controls injected into it, the      *)
(* observers and the timers of the downloader (src/popup.js)               *)

\* const maxAttempts of waitForContent
maxAttempts == 30

\* the post of the document: whether it is there, whether it holds an
\* img.b-post__media__img with a src, and its div.video-wrapper.  Every post
\* has a .b-post__tools bar and one video wrapper, whose image (if any) is
\* the preview of the video
PagePost(present, hasImage, wrapper) ==
    [wrapper |-> wrapper, present |-> present, hasImage |-> hasImage]

NoPost == PagePost(FALSE, FALSE, PlainWrapper(NoUrl, NoId))

UrlS == <<"S">>

\* the posts the site inserts: the video not yet loaded, or loaded
PagePosts ==
    { PagePost(TRUE, hasImage, wrapper) :
        hasImage \in BOOLEAN,
        wrapper \in { PlainWrapper(NoUrl, NoId),
                      Wrapper(NoUrl, NoId, FALSE, NoUrl, NoUrl, NoUrl, NoUrl, NoUrl, NoUrl,
                              UrlS, NoUrl) } }

\* elements carrying this.uniqueClass, counted by the element they were
\* appended to: the tools bar, the post itself, the video wrapper
Controls(tools, inPost, inWrapper) == [post |-> inPost, wrapper |-> inWrapper, tools |-> tools]

NoControls == Controls(0, 0, 0)

\* what the injection handlers read and change: the post, its controls, the
\* pending retryVideoExtraction timers of its wrapper, and whether
\* this.contentChangeTimeout is pending
Doc(p, c, retries, timeout) ==
    [post |-> p, controls |-> c, retryTimers |-> retries, contentChangeTimeout |-> timeout]

\* this.extractVideoUrl(wrapper, post) for the wrapper of the post
wrapperUrl(doc) == extractVideoUrl(doc.post.wrapper, mediaStore, docQuality)

\* extractMediaFromPost: the resolved video, else the image
extractMediaFromPost(doc) ==
    IF ~doc.post.present THEN <<>>
    ELSE IF wrapperUrl(doc) # NoUrl THEN <<wrapperUrl(doc)>>
    ELSE IF doc.post.hasImage THEN <<UrlA>>
    ELSE <<>>

\* post.querySelector(`.${this.uniqueClass}`)
hasControl(doc) == doc.controls.tools + doc.controls.post + doc.controls.wrapper > 0

handleFeedPosts(doc) ==
    IF doc.post.present /\ ~hasControl(doc) /\ extractMediaFromPost(doc) # <<>>
    THEN [doc EXCEPT !.controls.tools = @ + 1]
    ELSE doc

\* createVideoDownloadButton on the wrapper: the controls inside it are
\* removed and one is appended
createVideoDownloadButton(doc) == [doc EXCEPT !.controls.wrapper = 1]

processVideoWrappers(doc) ==
    IF ~doc.post.present THEN doc
    ELSE IF wrapperUrl(doc) = NoUrl THEN [doc EXCEPT !.retryTimers = @ + 1]
    ELSE createVideoDownloadButton(doc)

\* of the five selectors only .video-wrapper matches an element of the post
handleVideoPlayers(doc) == processVideoWrappers(doc)

\* handleChatMessages finds no .b-chat__message
injectDownloadButtons(doc) == handleVideoPlayers(handleFeedPosts(doc))

\* the body of a retry timer
retryVideoExtraction(doc) ==
    IF doc.post.present /\ wrapperUrl(doc) # NoUrl
    THEN [doc EXCEPT !.controls.wrapper = 1]
    ELSE doc

handleNewPost(doc) ==
    IF extractMediaFromPost(doc) # <<>>
    THEN [doc EXCEPT !.controls.post = @ + 1]
    ELSE doc

handleNewMedia(doc) ==
    IF doc.post.present /\ extractMediaFromPost(doc) # <<>>
    THEN [doc EXCEPT !.controls = Controls(0, 1, 0)]
    ELSE doc

debouncedProcessContentChanges(doc) == [doc EXCEPT !.contentChangeTimeout = TRUE]

\* the callback of this.observer for an added .b-post
observerCallback(doc) == injectDownloadButtons(doc)

\* the callback of one observer of setupMutationObserver for an added .b-post
mainObserverCallback(doc) ==
    LET asPost == handleNewPost(doc)
        asMedia == IF doc.post.hasImage THEN handleNewMedia(asPost) ELSE asPost
    IN  debouncedProcessContentChanges(asMedia)

\* the callbacks of n connected observers, one after the other
RECURSIVE eachMainObserver(_, _)
eachMainObserver(n, doc) ==
    IF n = 0 THEN doc ELSE eachMainObserver(n - 1, mainObserverCallback(doc))

CurrentDoc == Doc(post, controls, retryTimers, contentChangeTimeout)

DocBecomes(doc) ==
    /\ doc.retryTimers <= MaxRetryTimers
    /\ post' = doc.post
    /\ controls' = doc.controls
    /\ retryTimers' = doc.retryTimers
    /\ contentChangeTimeout' = doc.contentChangeTimeout

\* the observers of setupMutationObserver that are connected
connectedMainObservers == leakedObservers + (IF mainObserver THEN 1 ELSE 0)

\* what the last step of the page was: for a step of waitForContent the
\* attempts made so far, whether content was found, the injection passes run
\* and the delay of the timer it set (0: none)
PageEvent(kind, attempts, found, passes, delay) ==
    [kind |-> kind, passes |-> passes, attempts |-> attempts, found |-> found,
     delay |-> delay]

OtherEvent(kind) == PageEvent(kind, 0, FALSE, 0, 0)

\* a step of waitForContent: the document, the pending retry closures by
\* their attempts, and what happened
ScanStep(doc, timers, event) == [scanTimers |-> timers, doc |-> doc, event |-> event]

\* hasPosts || hasMessages || hasVideos || hasImages
checkForContent(doc) == doc.post.present

\* waitForContent up to its first timer
waitForContent(kind, doc, timers) ==
    IF checkForContent(doc)
    THEN ScanStep(injectDownloadButtons(doc), timers, PageEvent(kind, 0, TRUE, 1, 0))
    ELSE ScanStep(doc, [timers EXCEPT ![0] = @ + 1], PageEvent(kind, 0, FALSE, 0, 2000))

retryKeepsPolling(doc, timers, attempts) ==
    LET now == attempts + 1
        rest == [timers EXCEPT ![attempts] = @ - 1]
        found == checkForContent(doc)
        first == IF found THEN injectDownloadButtons(doc) ELSE doc
    IN  IF now < maxAttempts
        THEN ScanStep(first, [rest EXCEPT ![now] = @ + 1],
                      PageEvent("retry", now, found, IF found THEN 1 ELSE 0, 1000))
        ELSE ScanStep(injectDownloadButtons(first), rest,
                      PageEvent("retry", now, found, IF found THEN 2 ELSE 1, 0))

\* the closure retry of waitForContent, run by a timer when it has made
\* `attempts` attempts
retry(doc, timers, attempts) ==
    LET now == attempts + 1
        rest == [timers EXCEPT ![attempts] = @ - 1]
    IN  IF checkForContent(doc)
        THEN ScanStep(injectDownloadButtons(doc), rest, PageEvent("retry", now, TRUE, 1, 0))
        ELSE IF now < maxAttempts
        THEN ScanStep(doc, [rest EXCEPT ![now] = @ + 1],
                      PageEvent("retry", now, FALSE, 0, 1000))
        ELSE ScanStep(injectDownloadButtons(doc), rest,
                      PageEvent("retry", now, FALSE, 1, 0))

\* setupPhotoSwipeHandler, called `calls` times: every call sets a timer for
\* a checkPhotoSwipe of its own, which sets the next one whatever it finds
setupPhotoSwipeHandler(calls) ==
    /\ pollers + calls <= MaxPollers
    /\ pollers' = pollers + calls

\* every pass of a step of waitForContent is followed by setupPhotoSwipeHandler
ScanBecomes(step) ==
    /\ DocBecomes(step.doc)
    /\ scanTimers' = step.scanTimers
    /\ pageEvent' = step.event
    /\ setupPhotoSwipeHandler(step.event.passes)

\* cleanupObservers: this.mainObserver and this.intersectionObserver are
\* disconnected, this.contentChangeTimeout is cleared
cleanupObservers ==
    /\ mainObserver' = FALSE
    /\ intersectionObserver' = FALSE
    /\ contentChangeTimeout' = FALSE
    /\ UNCHANGED <<observer, leakedObservers>>

\* setupMutationObserver: a new observer is connected and this.mainObserver
\* refers to it; the one it referred to stays as it was
setupMutationObserver ==
    /\ mainObserver' = TRUE
    /\ leakedObservers' = connectedMainObservers

otherVars == <<baseVars, timeVars, lightboxVars, buttonVars>>

\* initialize() once loadSettings has settled
initialize ==
    /\ settingsLoaded /\ ~isInitialized
    /\ isInitialized' = TRUE
    /\ observer' = TRUE
    /\ setupMutationObserver
    /\ intersectionObserver' = TRUE
    /\ ScanBecomes(waitForContent("initialize", CurrentDoc, scanTimers))
    /\ UNCHANGED <<hrefChanged, reinitTimers, navigations, otherVars>>

\* the site inserts a post; the observers that are connected are called back
\* in the order of their creation
ContentInserted(p) ==
    /\ ~post.present
    /\ LET fresh == Doc(p, NoControls, 0, contentChangeTimeout)
           seen == IF observer THEN observerCallback(fresh) ELSE fresh
       IN  DocBecomes(eachMainObserver(connectedMainObservers, seen))
    /\ setupPhotoSwipeHandler(IF observer THEN 1 ELSE 0)
    /\ pageEvent' = OtherEvent("insert")
    /\ UNCHANGED <<isInitialized, observer, mainObserver, leakedObservers,
                   intersectionObserver, hrefChanged, scanTimers, reinitTimers,
                   navigations, otherVars>>

\* the player sets the src of the video of the wrapper; no observer watches
\* this attribute
SourceLoads ==
    /\ post.present /\ post.wrapper.nestedSrc = NoUrl
    /\ post' = [post EXCEPT !.wrapper.nestedSrc = UrlS]
    /\ pageEvent' = OtherEvent("source")
    /\ UNCHANGED pollers
    /\ UNCHANGED <<isInitialized, controls, retryTimers, contentChangeTimeout, observer,
                   mainObserver, leakedObservers, intersectionObserver, hrefChanged,
                   scanTimers, reinitTimers, navigations, otherVars>>

\* the site removes the post, and with it the controls inside it; the retry
\* timers of its wrapper find no document to change from then on
PostRemoved ==
    /\ post.present
    /\ post' = NoPost
    /\ controls' = NoControls
    /\ retryTimers' = 0
    /\ contentChangeTimeout' = (contentChangeTimeout \/ connectedMainObservers > 0)
    /\ pageEvent' = OtherEvent("remove")
    /\ UNCHANGED pollers
    /\ UNCHANGED <<isInitialized, observer, mainObserver, leakedObservers,
                   intersectionObserver, hrefChanged, scanTimers, reinitTimers,
                   navigations, otherVars>>

\* the site changes the location with history.pushState: no event
PushState ==
    /\ isInitialized /\ navigations < MaxNavigations
    /\ navigations' = navigations + 1
    /\ hrefChanged' = TRUE
    /\ pageEvent' = OtherEvent("pushState")
    /\ UNCHANGED pollers
    /\ UNCHANGED <<isInitialized, post, controls, retryTimers, contentChangeTimeout,
                   observer, mainObserver, leakedObservers, intersectionObserver,
                   scanTimers, reinitTimers, otherVars>>

\* the user goes back or forward: the location changes and the popstate
\* listener runs
Popstate ==
    /\ isInitialized /\ navigations < MaxNavigations
    /\ navigations' = navigations + 1
    /\ hrefChanged' = TRUE
    /\ cleanupObservers
    /\ reinitTimers' = reinitTimers + 1
    /\ pageEvent' = OtherEvent("popstate")
    /\ UNCHANGED pollers
    /\ UNCHANGED <<isInitialized, post, controls, retryTimers, scanTimers, otherVars>>

\* a tick of checkForRouteChange that finds the location changed
RoutePoll ==
    /\ isInitialized /\ hrefChanged
    /\ hrefChanged' = FALSE
    /\ cleanupObservers
    /\ controls' = NoControls
    /\ reinitTimers' = reinitTimers + 1
    /\ pageEvent' = OtherEvent("poll")
    /\ UNCHANGED pollers
    /\ UNCHANGED <<isInitialized, post, retryTimers, scanTimers, navigations, otherVars>>

\* the timer set by a teardown: setupMutationObserver and waitForContent
ReinitTimer ==
    /\ reinitTimers > 0
    /\ reinitTimers' = reinitTimers - 1
    /\ setupMutationObserver
    /\ ScanBecomes(waitForContent("reinit", CurrentDoc, scanTimers))
    /\ UNCHANGED <<isInitialized, observer, intersectionObserver, hrefChanged,
                   navigations, otherVars>>

\* a timer of waitForContent fires
ScanTimer(attempts) ==
    /\ scanTimers[attempts] > 0
    /\ ScanBecomes(retry(CurrentDoc, scanTimers, attempts))
    /\ UNCHANGED <<isInitialized, observer, mainObserver, leakedObservers,
                   intersectionObserver, hrefChanged, reinitTimers, navigations,
                   otherVars>>

\* a timer of processVideoWrappers fires
RetryTimer ==
    /\ retryTimers > 0
    /\ DocBecomes([retryVideoExtraction(CurrentDoc) EXCEPT !.retryTimers = @ - 1])
    /\ pageEvent' = OtherEvent("retryTimer")
    /\ UNCHANGED pollers
    /\ UNCHANGED <<isInitialized, observer, mainObserver, leakedObservers,
                   intersectionObserver, hrefChanged, scanTimers, reinitTimers,
                   navigations, otherVars>>

\* this.contentChangeTimeout fires
ContentChangeTimer ==
    /\ contentChangeTimeout
    /\ DocBecomes([injectDownloadButtons(CurrentDoc) EXCEPT !.contentChangeTimeout = FALSE])
    /\ pageEvent' = OtherEvent("changeTimer")
    /\ UNCHANGED pollers
    /\ UNCHANGED <<isInitialized, observer, mainObserver, leakedObservers,
                   intersectionObserver, hrefChanged, scanTimers, reinitTimers,
                   navigations, otherVars>>
----------------------------------------------------------------------------
(* The two debounces of the injection pass in time                        *)
(* (startObserving, debouncedProcessContentChanges)                        *)

MaxTicks == 7
MaxBatches == 2

\* the wait of both debounces, in milliseconds
debounceWait == 500

\* the same in ticks of the clock, which are 100 ms long
waitTicks == debounceWait \div 100

\* the batches an observer was called with and the passes its timers ran,
\* each by the tick it happened at
Log(ofObserver, ofMainObserver) == [observer |-> ofObserver, mainObserver |-> ofMainObserver]

NoLog == Log(<<>>, <<>>)

\* a sequence without its i-th element
Without(seq, i) == SubSeq(seq, 1, i - 1) \o SubSeq(seq, i + 1, Len(seq))

\* the page variables an action of this part leaves alone beside the document
pageRest == <<isInitialized, observer, mainObserver, leakedObservers, intersectionObserver,
              hrefChanged, scanTimers, reinitTimers, navigations, pageEvent, pollers>>

\* no timer is due at this tick: a timer that is due fires before the
\* clock moves on and before a mutation that arrives at its tick is reported
NoneDue ==
    /\ \A i \in 1..Len(debounceTimers) : debounceTimers[i] > clock
    /\ \A due \in contentChangeDue : due > clock

\* 100 ms pass
Tick ==
    /\ isInitialized /\ clock < MaxTicks
    /\ NoneDue
    /\ clock' = clock + 1
    /\ UNCHANGED <<debounceTimers, contentChangeDue, batchLog, passLog, lightboxVars,
                   pageVars, baseVars, buttonVars>>

\* the class attribute of a post or video wrapper changes.  this.observer
\* is called with the batch and finds shouldUpdate: it calls
\* this.debounce(...) and the function that returns, whose timeout variable
\* is new with every call.  The observers of setupMutationObserver find
\* neither active, current nor aria-hidden on the target
ClassChanged ==
    /\ observer /\ Len(batchLog.observer) + Len(batchLog.mainObserver) < MaxBatches
    /\ NoneDue
    /\ debounceTimers' = Append(debounceTimers, clock + waitTicks)
    /\ batchLog' = [batchLog EXCEPT !.observer = Append(@, clock)]
    /\ UNCHANGED <<clock, contentChangeDue, passLog, lightboxVars, pageVars, baseVars, buttonVars>>

\* the site removes a post of the feed other than the one followed here:
\* every observer of setupMutationObserver finds hasRemovedContent and calls
\* debouncedProcessContentChanges, which clears this.contentChangeTimeout and
\* sets it anew; this.observer looks at added nodes only
OtherPostRemoved ==
    /\ connectedMainObservers > 0
    /\ Len(batchLog.observer) + Len(batchLog.mainObserver) < MaxBatches
    /\ NoneDue
    /\ DocBecomes(debouncedProcessContentChanges(CurrentDoc))
    /\ contentChangeDue' = {clock + waitTicks}
    /\ batchLog' = [batchLog EXCEPT !.mainObserver = Append(@, clock)]
    /\ UNCHANGED <<clock, debounceTimers, passLog, lightboxVars, pageRest, baseVars, buttonVars>>

\* a timer of a closure of this.debounce fires: injectDownloadButtons
DebounceTimer(i) ==
    /\ i \in 1..Len(debounceTimers) /\ debounceTimers[i] = clock
    /\ DocBecomes(injectDownloadButtons(CurrentDoc))
    /\ debounceTimers' = Without(debounceTimers, i)
    /\ passLog' = [passLog EXCEPT !.observer = Append(@, clock)]
    /\ UNCHANGED <<clock, contentChangeDue, batchLog, lightboxVars, pageRest, baseVars, buttonVars>>

\* this.contentChangeTimeout fires at its time: injectDownloadButtons
ContentChangeTimerDue ==
    /\ contentChangeDue = {clock}
    /\ DocBecomes([injectDownloadButtons(CurrentDoc) EXCEPT !.contentChangeTimeout = FALSE])
    /\ contentChangeDue' = {}
    /\ passLog' = [passLog EXCEPT !.mainObserver = Append(@, clock)]
    /\ UNCHANGED <<clock, debounceTimers, batchLog, lightboxVars, pageRest, baseVars, buttonVars>>
----------------------------------------------------------------------------
(* The lightbox: the viewer, its slides and the control of its top bar    *)

MaxLightboxTimers == 2

\* the .pswp--open node: the src of the image of each slide (NoUrl while the
\* image is not attached) and the slide whose aria-hidden is 'false'
Viewer(open, slides, active) == [open |-> open, slides |-> slides, active |-> active]

NoViewer == Viewer(FALSE, <<>>, 0)

\* the pending timers of the lightbox: the 500 ms ones that call
\* setupPhotoSwipeDynamicUpdates, the 100 ms ones of its checkPhotoSwipe and
\* the 100 ms ones that call updatePhotoSwipeButtons
LightboxTimers(setup, check, update) == [setup |-> setup, check |-> check, update |-> update]

\* the media URL updatePhotoSwipeButtons finds in the active slide
activeUrl(view) ==
    IF view.open /\ view.active \in 1..Len(view.slides) THEN view.slides[view.active]
    ELSE NoUrl

\* updatePhotoSwipeButtons that leaves the controls of the top bar in place
updatePhotoSwipeButtonsStacking(view, bar) ==
    IF ~view.open THEN bar
    ELSE IF activeUrl(view) # NoUrl THEN <<activeUrl(view)>> \o bar
    ELSE bar

\* updatePhotoSwipeButtons: the top bar, as the URLs its controls are bound
\* to, after the call
updatePhotoSwipeButtons(view, bar) ==
    IF ~view.open THEN bar
    ELSE IF activeUrl(view) # NoUrl THEN <<activeUrl(view)>>
    ELSE <<>>

\* slides of images, one of them not attached yet
ViewerSlides == { <<UrlA, UrlB>>, <<UrlA, NoUrl>>, <<NoUrl, UrlB>> }

\* the site inserts the viewer, its first slide active.  Every observer of
\* setupMutationObserver and the observer of observePhotoSwipeChanges set a
\* 500 ms timer; this.observer finds no post, video or post image in the node
OpenViewer(slides) ==
    /\ isInitialized /\ ~viewer.open
    /\ lightboxTimers.setup + connectedMainObservers + 1 <= MaxLightboxTimers
    /\ viewer' = Viewer(TRUE, slides, 1)
    /\ topBar' = <<>>
    /\ lightboxTimers' = [lightboxTimers EXCEPT !.setup = @ + connectedMainObservers + 1]
    /\ UNCHANGED <<slideObservers, timeVars, pageVars, baseVars, buttonVars>>

\* the viewer shows another slide: its aria-hidden becomes 'false'.  Every
\* observer of setupMutationObserver calls handleMediaNavigation, which finds
\* no post around the slide, then updatePhotoSwipeButtons and
\* debouncedProcessContentChanges; every slide observer sets a 100 ms timer
SlideShown(i) ==
    /\ viewer.open /\ i \in 1..Len(viewer.slides) /\ i # viewer.active
    /\ lightboxTimers.update + slideObservers <= MaxLightboxTimers
    /\ viewer' = [viewer EXCEPT !.active = i]
    /\ topBar' = IF connectedMainObservers > 0
                 THEN updatePhotoSwipeButtons(viewer', topBar)
                 ELSE topBar
    /\ contentChangeTimeout' = (contentChangeTimeout \/ connectedMainObservers > 0)
    /\ lightboxTimers' = [lightboxTimers EXCEPT !.update = @ + slideObservers]
    /\ UNCHANGED <<slideObservers, timeVars, post, controls, retryTimers, pageRest, baseVars, buttonVars>>

\* ArrowLeft or ArrowRight is pressed while the viewer is open
ArrowKey ==
    /\ isInitialized /\ viewer.open
    /\ lightboxTimers.update < MaxLightboxTimers
    /\ lightboxTimers' = [lightboxTimers EXCEPT !.update = @ + 1]
    /\ UNCHANGED <<viewer, topBar, slideObservers, timeVars, pageVars, baseVars, buttonVars>>

\* a 500 ms timer fires: setupPhotoSwipeDynamicUpdates
SetupTimer ==
    /\ lightboxTimers.setup > 0 /\ lightboxTimers.check < MaxLightboxTimers
    /\ lightboxTimers' = [lightboxTimers EXCEPT !.setup = @ - 1, !.check = @ + 1]
    /\ UNCHANGED <<viewer, topBar, slideObservers, timeVars, pageVars, baseVars, buttonVars>>

\* checkPhotoSwipe of setupPhotoSwipeDynamicUpdates: with the viewer open,
\* updatePhotoSwipeButtons and one more slide observer on the viewer
CheckTimer ==
    /\ lightboxTimers.check > 0
    /\ viewer.open => slideObservers < MaxLightboxTimers
    /\ lightboxTimers' = [lightboxTimers EXCEPT !.check = @ - 1]
    /\ topBar' = updatePhotoSwipeButtons(viewer, topBar)
    /\ slideObservers' = IF viewer.open THEN slideObservers + 1 ELSE slideObservers
    /\ UNCHANGED <<viewer, timeVars, pageVars, baseVars, buttonVars>>

\* a 100 ms timer of the keydown listener or of a slide observer fires
UpdateTimer ==
    /\ lightboxTimers.update > 0
    /\ lightboxTimers' = [lightboxTimers EXCEPT !.update = @ - 1]
    /\ topBar' = updatePhotoSwipeButtons(viewer, topBar)
    /\ UNCHANGED <<viewer, slideObservers, timeVars, pageVars, baseVars, buttonVars>>

\* checkPhotoSwipe of setupPhotoSwipeHandler, every 1000 ms once content was
\* found: the controls of the top bar are removed and one is inserted for
\* the active slide, as in updatePhotoSwipeButtons
PhotoSwipePoll ==
    /\ pollers > 0 /\ viewer.open
    /\ topBar' = updatePhotoSwipeButtons(viewer, topBar)
    /\ topBar' # topBar
    /\ UNCHANGED <<viewer, lightboxTimers, slideObservers, timeVars, pageVars, baseVars, buttonVars>>

\* the site removes the viewer, and with it its top bar and the target of
\* the slide observers
CloseViewer ==
    /\ viewer.open
    /\ viewer' = NoViewer
    /\ topBar' = <<>>
    /\ slideObservers' = 0
    /\ UNCHANGED <<lightboxTimers, timeVars, pageVars, baseVars, buttonVars>>
----------------------------------------------------------------------------
(* A download control and the requests of its group                       *)
(* (createSmartDownloadButton, createFloatingDownloadButton, downloadMedia) *)

MaxGroup == 2

\* one entry of mediaToDownload: [url, creator, type]
Asset(url, creator, type) == [url |-> url, creator |-> creator, type |-> type]

\* type.includes('video'), over the two labels the callers pass
includesVideo(type) == type = "download video"

\* the text of a control, with the number it shows (0 when it shows none)
Label(text, count) == [text |-> text, count |-> count]

\* the text a control is created with
originalLabel(kind, group) ==
    IF kind = "floating" THEN Label("Download All", 0)
    ELSE IF Len(group) > 1 THEN Label("Download All", Len(group))
    ELSE IF \E i \in 1..Len(group) : includesVideo(group[i].type) THEN Label("Download Video", 0)
    ELSE Label("Download Image", 0)

\* a control: the media group of a smart control or the links the floating
\* control collected at its click, its label, whether it is disabled, the
\* place in the group of the request whose reply downloadMedia awaits (0
\* when none), and whether the timer that restores it is pending
Button(kind, group, label, disabled, awaited, restoreTimer) ==
    [kind |-> kind, label |-> label, group |-> group, disabled |-> disabled,
     awaited |-> awaited, restoreTimer |-> restoreTimer]

ButtonKinds == {"smart", "floating"}

NoButton == Button("smart", <<>>, Label("Download Image", 0), FALSE, 0, FALSE)

\* the assets the groups of the page are made of
ButtonAssets ==
    { Asset(UrlA, Bob, "download video"), Asset(UrlB, Bob, "download"),
      Asset(UrlC, Bob, "download") }

RECURSIVE GroupsOfLength(_)
GroupsOfLength(n) ==
    IF n = 0 THEN {<<>>}
    ELSE {Append(g, a) : g \in GroupsOfLength(n - 1), a \in ButtonAssets}

\* the groups of the smart controls: groupMediaByType makes none that is empty
ButtonGroups == UNION {GroupsOfLength(n) : n \in 1..MaxGroup}

\* what chrome.runtime.sendMessage reports to the callback of downloadMedia:
\* the response of the listener, or chrome.runtime.lastError
ReplyOutcomes == {"response", "lastError"}

\* the click listener up to its first await.  A disabled button dispatches
\* no click.  The smart control sends the first request of its group; the
\* floating control collects the links of the page first and, when there is
\* none, shows so and sets the timer that restores it
Click(kind, group) ==
    /\ ~button.disabled
    /\ kind = "smart" => group # <<>>
    /\ button' =
          IF group = <<>>
          THEN Button(kind, group, Label("No media found", 0), TRUE, 0, TRUE)
          ELSE Button(kind, group,
                      IF kind = "floating" THEN Label("Downloading", Len(group))
                      ELSE Label("Downloading...", 0),
                      TRUE, 1, FALSE)
    /\ sentLog' = IF group = <<>> THEN <<>> ELSE <<[outcome |-> "sent", place |-> 1]>>
    /\ UNCHANGED <<pageVars, timeVars, lightboxVars, baseVars>>

\* DownloadSettled with a loop that a rejected request ends: the outer catch
\* shows the failure and sets the timer
DownloadSettledStopsAtFailure(outcome) ==
    /\ button.awaited > 0
    /\ LET place == button.awaited
           settled == Append(sentLog, [outcome |-> outcome, place |-> place])
       IN  IF outcome = "response" /\ place < Len(button.group)
           THEN /\ button' = [button EXCEPT !.awaited = place + 1]
                /\ sentLog' = Append(settled, [outcome |-> "sent", place |-> place + 1])
           ELSE /\ button' = [button EXCEPT !.awaited = 0, !.restoreTimer = TRUE,
                                            !.label = Label("Failed", 0)]
                /\ sentLog' = settled
    /\ UNCHANGED <<pageVars, timeVars, lightboxVars, baseVars>>

\* the promise of downloadMedia settles: resolved with the response or
\* rejected with lastError, which the inner catch logs.  The loop sends the
\* next request of the group or, after the last, shows the end and sets the
\* timer that restores the control
DownloadSettled(outcome) ==
    /\ button.awaited > 0
    /\ LET place == button.awaited
           settled == Append(sentLog, [outcome |-> outcome, place |-> place])
           progress == IF button.kind = "floating" /\ outcome = "response"
                       THEN Label("Downloaded of", place)
                       ELSE button.label
       IN  IF place < Len(button.group)
           THEN /\ button' = [button EXCEPT !.awaited = place + 1, !.label = progress]
                /\ sentLog' = Append(settled, [outcome |-> "sent", place |-> place + 1])
           ELSE /\ button' = [button EXCEPT !.awaited = 0, !.restoreTimer = TRUE,
                                            !.label = IF button.kind = "floating"
                                                      THEN Label("Downloaded files", Len(button.group))
                                                      ELSE Label("Downloaded", 0)]
                /\ sentLog' = settled
    /\ UNCHANGED <<pageVars, timeVars, lightboxVars, baseVars>>

\* the timer set at the end of the click listener fires: the label the
\* control was created with, and the control enabled
RestoreTimer ==
    /\ button.restoreTimer
    /\ button' = [button EXCEPT !.restoreTimer = FALSE, !.disabled = FALSE,
                                !.label = originalLabel(button.kind, button.group)]
    /\ UNCHANGED <<sentLog, pageVars, timeVars, lightboxVars, baseVars>>
----------------------------------------------------------------------------
(* Specifications *)

QueueIdle ==
    /\ downloadQueue = <<>>
    /\ isProcessingQueue = FALSE
    /\ handlers = {}
    /\ loops = <<>>
    /\ acks = <<>>
    /\ notifications = <<>>
    /\ storage = DefaultSettings
    /\ received = <<>>
    /\ trace = <<>>

FilenameIdle ==
    /\ fnIn = NoCall
    /\ fnOut = <<>>

ApiIdle ==
    /\ fetches = <<>>
    /\ tabMessages = <<>>
    /\ refetchLog = <<>>
    /\ pageRequests = 0
    /\ lastEvent = ApiEvent("none", NoDetails, NoResult, "")
    /\ failed = FALSE

\* the downloader of the document side after its constructor
StoreIdle ==
    /\ mediaStore = <<>>
    /\ videoStore = <<>>
    /\ imageStore = <<>>
    /\ writes = <<>>
    /\ caught = 0
    /\ escaped = FALSE
    /\ delivered = Delivery("none", JsonNull, FALSE)
    /\ deliveries = 0

\* the settings of the constructor, and no resolution yet
ResolveIdle ==
    /\ docQuality = "full"
    /\ settingsLoaded = FALSE
    /\ resolution = Resolution(FALSE, PlainWrapper(NoUrl, NoId), "full", 0, NoUrl)
    /\ extraction = NoExtraction

\* the page before initialize(): nothing connected, no timer, no post yet
PageIdle ==
    /\ isInitialized = FALSE
    /\ post = NoPost
    /\ controls = NoControls
    /\ retryTimers = 0
    /\ contentChangeTimeout = FALSE
    /\ observer = FALSE
    /\ mainObserver = FALSE
    /\ leakedObservers = 0
    /\ intersectionObserver = FALSE
    /\ hrefChanged = FALSE
    /\ scanTimers = [attempts \in 0..(maxAttempts - 1) |-> 0]
    /\ reinitTimers = 0
    /\ navigations = 0
    /\ pageEvent = OtherEvent("none")
    /\ pollers = 0

\* no time has passed and no batch was reported
TimeIdle ==
    /\ clock = 0
    /\ debounceTimers = <<>>
    /\ contentChangeDue = {}
    /\ batchLog = NoLog
    /\ passLog = NoLog

\* no viewer in the document
LightboxIdle ==
    /\ viewer = NoViewer
    /\ topBar = <<>>
    /\ lightboxTimers = LightboxTimers(0, 0, 0)
    /\ slideObservers = 0

\* no control was clicked
ButtonIdle ==
    /\ button = NoButton
    /\ sentLog = <<>>

DocIdle == StoreIdle /\ ResolveIdle /\ PageIdle /\ TimeIdle /\ LightboxIdle /\ ButtonIdle

\* the service after its constructor and initialize()
Init == QueueIdle /\ FilenameIdle /\ ApiIdle /\ DocIdle

\* download requests, the queue and its drain loop, with the settings
\* store changing underneath; the service stays loaded throughout (the
\* onSuspend listener and cleanup() are not among these actions)
Next ==
    \/ \E message \in DownloadMessages : OnMessage(message)
    \/ \E h \in handlers, readFails \in BOOLEAN, now \in Times : SettingsRead(h, readFails, now)
    \/ \E i \in 1..Len(loops), outcome \in DownloadOutcomes : DownloadSettles(i, outcome)
    \/ \E i \in 1..Len(loops) : CooldownElapses(i)
    \/ \E enabled \in BOOLEAN : handleFolderChange(enabled)

Spec == Init /\ [][Next]_vars

\* a pending settings read, download call and cool-down timer each settle
Fairness ==
    /\ WF_vars(\E h \in handlers, readFails \in BOOLEAN, now \in Times :
                    SettingsRead(h, readFails, now))
    /\ WF_vars(\E i \in 1..Len(loops), outcome \in DownloadOutcomes : DownloadSettles(i, outcome))
    /\ WF_vars(\E i \in 1..Len(loops) : CooldownElapses(i))

SpecLive == Spec /\ Fairness

\* the same with the host announcing a suspension at any moment
NextSuspend ==
    \/ Next
    \/ cleanup

SpecSuspend == Init /\ [][NextSuspend]_vars

\* generateFilename on every bounded input
InitFilename ==
    /\ QueueIdle /\ ApiIdle /\ DocIdle
    /\ fnOut = <<>>
    /\ fnIn \in [url : UrlInputs \cup {Undefined}, creator : CreatorInputs, type : Types,
                  settings : [autoCreateFolder : BOOLEAN], now : Times]

NextFilename == GenerateFilenameCall

SpecFilename == InitFilename /\ [][NextFilename]_vars

\* interception of page requests and of the service's own re-fetches
NextApi ==
    \/ \E tabId \in TabIds, url \in PageUrls, requestHeaders \in HeaderLists :
          PageRequest(Details(tabId, url, requestHeaders))
    \/ \E i \in 1..Len(fetches), keepsFragment \in BOOLEAN : RefetchObserved(i, keepsFragment)
    \/ \E i \in 1..Len(fetches), result \in FetchResults : FetchSettles(i, result)

SpecApi == Init /\ [][NextApi]_vars

\* payloads reaching the stores of the document side
NextStore ==
    \/ \E payload \in StorePayloads, isForDm \in BOOLEAN : RecordResponse(payload, isForDm)
    \/ \E data \in StorePayloads, isForDm \in BOOLEAN : OnApiData(data, isForDm)

SpecStore == Init /\ [][NextStore]_vars

\* posts recorded from the feed and from chats, and wrappers resolved
NextResolve ==
    \/ \E payload \in ResolvePayloads, isForDm \in BOOLEAN : RecordResponse(payload, isForDm)
    \/ \E quality \in Qualities : loadSettings(quality)
    \/ \E wrapper \in ResolveWrappers : ResolveWrapper(wrapper)

SpecResolve == Init /\ [][NextResolve]_vars

\* posts recorded from the feed and from chats, and containers gone over by
\* handleVideoPlayers
NextExtract ==
    \/ \E payload \in ResolvePayloads, isForDm \in BOOLEAN : RecordResponse(payload, isForDm)
    \/ \E quality \in Qualities : loadSettings(quality)
    \/ \E container \in ExtractContainers : handleVideoPlayersOn(container)

SpecExtract == Init /\ [][NextExtract]_vars

\* a download request of the page
SettingsMessages == { ArrayMessage(JsString(U1), JsString(Bob), "download") }

\* the popup changing the stored settings while the document side loads
\* them, records a post and resolves its wrapper, and while the executor
\* takes download requests in
NextSettings ==
    \/ \E quality \in Qualities : handleQualityChange(quality)
    \/ \E enabled \in BOOLEAN : handleFolderChange(enabled)
    \/ \E readFails \in BOOLEAN : loadStoredSettings(readFails)
    \/ RecordResponse(JsonArray(<<Post(StrId(1), TRUE, <<VideoA, ImageA>>)>>), FALSE)
    \/ ResolveWrapper(PlainWrapper(UrlAx, StrId(1)))
    \/ \E message \in SettingsMessages : OnMessage(message)
    \/ \E h \in handlers, readFails \in BOOLEAN, now \in Times : SettingsRead(h, readFails, now)

SpecSettings == Init /\ [][NextSettings]_vars

\* the quality of the constructor and of a settings store never written; the
\* stored quality plays no part in the steps of the page
DefaultQuality == "full"

\* the page: content coming and going, navigation, and the timers of the
\* downloader up to the first firing of a timer of waitForContent
NextPage ==
    \/ loadSettings(DefaultQuality)
    \/ initialize
    \/ \E p \in PagePosts : ContentInserted(p)
    \/ SourceLoads
    \/ PostRemoved
    \/ PushState
    \/ Popstate
    \/ RoutePoll
    \/ ReinitTimer
    \/ RetryTimer
    \/ ContentChangeTimer

SpecPage == Init /\ [][NextPage]_vars

\* scanning for content: every way into waitForContent and its timers
NextScan ==
    \/ loadSettings(DefaultQuality)
    \/ initialize
    \/ \E p \in PagePosts : ContentInserted(p)
    \/ PostRemoved
    \/ PushState
    \/ RoutePoll
    \/ ReinitTimer
    \/ \E attempts \in 0..(maxAttempts - 1) : ScanTimer(attempts)
    \/ RetryTimer

SpecScan == Init /\ [][NextScan]_vars

\* payloads reaching the stores while the route changes underneath
NextTeardown ==
    \/ \E payload \in StorePayloads, isForDm \in BOOLEAN : RecordResponse(payload, isForDm)
    \/ \E data \in StorePayloads, isForDm \in BOOLEAN : OnApiData(data, isForDm)
    \/ loadSettings(DefaultQuality)
    \/ initialize
    \/ PushState
    \/ Popstate
    \/ RoutePoll
    \/ ReinitTimer

SpecTeardown == Init /\ [][NextTeardown]_vars

\* the debounces in time: the feed is there when the script starts, then
\* class changes and removals are reported while the clock runs
NextDebounce ==
    \/ loadSettings(DefaultQuality)
    \/ \E p \in PagePosts : ~isInitialized /\ ContentInserted(p)
    \/ initialize
    \/ Tick
    \/ ClassChanged
    \/ OtherPostRemoved
    \/ \E i \in 1..Len(debounceTimers) : DebounceTimer(i)
    \/ ContentChangeTimerDue

SpecDebounce == Init /\ [][NextDebounce]_vars

\* the lightbox over an initialized page
NextLightbox ==
    \/ loadSettings(DefaultQuality)
    \/ initialize
    \/ \E p \in PagePosts : ContentInserted(p)
    \/ ContentChangeTimer
    \/ \E slides \in ViewerSlides : OpenViewer(slides)
    \/ \E i \in 1..Len(viewer.slides) : SlideShown(i)
    \/ ArrowKey
    \/ SetupTimer
    \/ CheckTimer
    \/ UpdateTimer
    \/ PhotoSwipePoll
    \/ CloseViewer

SpecLightbox == Init /\ [][NextLightbox]_vars

\* clicks on the controls of the page and the replies to their requests
NextButton ==
    \/ \E kind \in ButtonKinds, group \in ButtonGroups \cup {<<>>} : Click(kind, group)
    \/ \E outcome \in ReplyOutcomes : DownloadSettled(outcome)
    \/ RestoreTimer

SpecButton == Init /\ [][NextButton]_vars

\* a request that was sent is answered or fails, and a timer that is set fires
ButtonFairness ==
    /\ WF_vars(\E outcome \in ReplyOutcomes : DownloadSettled(outcome))
    /\ WF_vars(RestoreTimer)

SpecButtonLive == SpecButton /\ ButtonFairness
----------------------------------------------------------------------------
(* Properties of the download queue *)

IsStart(ev) == ev.e = "start"
IsEnd(ev) == ev.e = "end"
IsStartOrEnd(ev) == ev.e \in {"start", "end"}
IsFailedEnd(ev) == ev.e = "end" /\ ev.outcome # "id"

\* the k-th message passed the url check of handleDownloadRequest
Accepted(k) ==
    /\ k \in 1..Len(received)
    /\ received[k].shape = "array"
    /\ Truthy(received[k].url)

AcceptedIds == {k \in 1..Len(received) : Accepted(k)}

StartsOfId(k) == {p \in 1..Len(trace) : IsStart(trace[p]) /\ trace[p].download.id = k}
Started(k) == StartsOfId(k) # {}

InFlight == {i \in 1..Len(loops) : loops[i].pc = "transfer"}

Quiescent == handlers = {} /\ loops = <<>>

C2_FifoByArrival ==
    \A p \in 1..Len(trace), q \in 1..Len(trace) :
        (p < q /\ IsStart(trace[p]) /\ IsStart(trace[q]))
            => trace[p].download.id < trace[q].download.id

QueuedIds == {downloadQueue[j].id : j \in 1..Len(downloadQueue)}

C3_Safety ==
    /\ \A k \in AcceptedIds : Cardinality(StartsOfId(k)) <= 1
    /\ \A k \in QueuedIds : ~Started(k)
    /\ downloadQueue # <<>> => (isProcessingQueue /\ loops # <<>>)

FailedEnds == SelectSeq(trace, IsFailedEnd)

C4_Notified ==
    /\ Len(notifications) = Len(FailedEnds)
    /\ \A j \in 1..Len(FailedEnds) :
          notifications[j] = [message |-> FailedPrefix \o FailedEnds[j].download.filename,
                              title |-> "Download Failed"]

LastIsFailedEnd == trace # <<>> /\ IsFailedEnd(trace[Len(trace)])

\* C4: every failed transfer has its 'Download Failed' notification naming
\* the item's filename; the step in which a transfer fails leaves the queue
\* as it is and the drain loop running; every item queued behind a failed
\* one is eventually started, and isProcessingQueue eventually drops.
C4_FailureIsolated ==
    /\ []C4_Notified
    /\ [][(Len(trace') = Len(trace) + 1 /\ IsFailedEnd(trace'[Len(trace')]))
            => (downloadQueue' = downloadQueue /\ isProcessingQueue' /\ loops' # <<>>)]_vars
    /\ \A k \in 1..MaxRequests :
          []((LastIsFailedEnd /\ k \in QueuedIds) => <>Started(k))
    /\ [](LastIsFailedEnd => <>(~isProcessingQueue))

C4_Witness ==
    \E p \in 1..(Len(trace) - 2) :
        /\ IsFailedEnd(trace[p])
        /\ trace[p + 1].e = "cool"
        /\ IsStart(trace[p + 2])
        /\ notifications # <<>>

\* a message that is not an array, is a short array, or has no url
Malformed(message) == message.shape # "array" \/ ~Truthy(message.url)

\* C5: the k-th message, when malformed, is answered with success false and
\* an error text, and nothing of it is suspended, queued or transferred.
C5_MalformedRejected ==
    \A k \in 1..Len(received) :
        Malformed(received[k])
            => /\ acks[k].success = FALSE
               /\ acks[k].error # ""
               /\ k \notin QueuedIds
               /\ ~Started(k)
               /\ \A h \in handlers : h.id # k

IsPlaceholder(name) ==
    /\ Len(name) >= 15
    /\ SubSeq(name, 1, 9) = <<"d","o","w","n","l","o","a","d","_">>
    /\ SubSeq(name, Len(name) - 4, Len(name)) = <<".","f","i","l","e">>
    /\ \A i \in 10..(Len(name) - 5) : name[i] \in Digit

ItemsSeen ==
    {downloadQueue[j] : j \in 1..Len(downloadQueue)}
        \cup {loops[i].download : i \in 1..Len(loops)}
        \cup {trace[p].download : p \in 1..Len(trace)}

NamingFails(k) == Accepted(k) /\ received[k].creator.t # "string"

StartedAsPlaceholder(k) ==
    \E p \in StartsOfId(k) : IsPlaceholder(trace[p].download.filename)

\* C9: an item whose creator is not text carries the placeholder name
\* download_<timestamp>.file, and every accepted request whose naming
\* fails is eventually handed to executeDownload under that name.
C9_NamingNeverBlocks ==
    /\ [](\A item \in ItemsSeen : item.creator.t # "string" => IsPlaceholder(item.filename))
    /\ \A k \in 1..MaxRequests : [](NamingFails(k) => <>StartedAsPlaceholder(k))

C9_Witness ==
    \E k \in AcceptedIds : NamingFails(k) /\ StartedAsPlaceholder(k)
----------------------------------------------------------------------------
(* Properties of filename synthesis *)

SafeChars == Alnum \cup {"_", "/"}

Called == fnOut # <<>>
TextInputs == fnIn.url.t = "string" /\ fnIn.creator.t = "string"

\* C7 (as claimed): every character of the synthesized filename is one of
\* [A-Za-z0-9_] or '/', for any input.
C7_EveryCharacterSafe ==
    Called => \A i \in 1..Len(fnOut[1]) : fnOut[1][i] \in SafeChars

\* C7 (amended): with a text url and creator and folder organization on,
\* the filename begins with the creator in which every character outside
\* [A-Za-z0-9] is '_' and every other character is kept, followed by '/';
\* 'Jane Doe#1' gives 'Jane_Doe_1'.
C7_CreatorSegmentSanitized ==
    (Called /\ TextInputs /\ fnIn.settings.autoCreateFolder)
        => LET out == fnOut[1]
               c == fnIn.creator.s
           IN  /\ Len(out) > Len(c)
               /\ out[Len(c) + 1] = "/"
               /\ \A i \in 1..Len(c) :
                     /\ out[i] \in Alnum \cup {"_"}
                     /\ c[i] \in Alnum => out[i] = c[i]
                     /\ c[i] \notin Alnum => out[i] = "_"
               /\ c = JaneDoe
                     => SubSeq(out, 1, 10) = <<"J","a","n","e","_","D","o","e","_","1">>

C7_Witness ==
    /\ Called
    /\ fnIn.creator = JsString(JaneDoe)
    /\ fnIn.url.t = "string"
    /\ fnIn.settings.autoCreateFolder
    /\ Len(fnOut[1]) > 11

\* q is url cut before its first '?'
IsBeforeQuery(q, url) ==
    /\ Len(q) <= Len(url)
    /\ q = SubSeq(url, 1, Len(q))
    /\ \A i \in 1..Len(q) : q[i] # "?"
    /\ Len(q) < Len(url) => url[Len(q) + 1] = "?"

\* b is what follows the last '/' of q
IsLastSegment(b, q) ==
    /\ Len(b) <= Len(q)
    /\ b = SubSeq(q, Len(q) - Len(b) + 1, Len(q))
    /\ \A i \in 1..Len(b) : b[i] # "/"
    /\ Len(b) < Len(q) => q[Len(q) - Len(b)] = "/"

\* C8: for a text url and creator the result is <sanitizedCreator>/<base>
\* with folder organization on and <base> alone with it off, <base> being
\* the last path segment of the url cut before its query string; creator
\* 'Bob' with folders on gives 'Bob/<base>'.
C8_FolderPrefixAndBase ==
    (Called /\ TextInputs)
        => \E n \in 0..Len(fnIn.url.s) : \E m \in 0..n :
              LET q == SubSeq(fnIn.url.s, 1, n)
                  b == SubSeq(q, n - m + 1, n)
              IN  /\ IsBeforeQuery(q, fnIn.url.s)
                  /\ IsLastSegment(b, q)
                  /\ fnOut[1] = IF fnIn.settings.autoCreateFolder
                                 THEN cleanCreatorOf(fnIn.creator.s) \o <<"/">> \o b
                                 ELSE b
                  /\ (fnIn.creator.s = Bob /\ fnIn.settings.autoCreateFolder)
                        => fnOut[1] = <<"B","o","b","/">> \o b

C8_Witness ==
    /\ Called
    /\ fnIn.creator = JsString(Bob)
    /\ fnIn.settings.autoCreateFolder
    /\ fnIn.url = JsString(<<"/", "a", "?">>)
    /\ fnOut[1] = <<"B","o","b","/","a">>

----------------------------------------------------------------------------
(* Properties of the interception *)

\* C10: every re-fetch was issued for a request of a tab (tab id not
\* negative) whose URL does not carry '#trilobite'; none was caused by the
\* service's own re-fetch; and there are no more re-fetches than page
\* requests.
C10_NoRefetchOfRefetch ==
    /\ \A j \in 1..Len(refetchLog) :
          /\ refetchLog[j].details.tabId >= 0
          /\ ~Includes(refetchLog[j].details.url, Trilobite)
          /\ refetchLog[j].origin = "page"
    /\ Len(refetchLog) <= pageRequests

C10_Witness ==
    /\ Len(refetchLog) = 1
    /\ pageRequests = 2
    /\ \E i \in 1..Len(fetches) : fetches[i].seen
----------------------------------------------------------------------------
(* Properties of re-fetch failures *)

\* C11: a re-fetch that fails (network error, non-2xx status, malformed
\* JSON) sends no apiData message, and whatever has failed before, an
\* intercepted request is re-fetched exactly when it passes the checks of
\* handleApiRequest
C11_FailureSwallowed ==
    [][LET event == lastEvent'
       IN  /\ (event.kind = "settle" /\ ~event.ok)
                => (tabMessages' = tabMessages /\ event.outcome = "dropped")
           /\ event.kind = "request"
                => /\ (event.outcome = "issued") <=> event.passes
                   /\ (event.outcome = "issued") => Len(fetches') = Len(fetches) + 1]_vars

\* after a failed re-fetch, with nothing sent, a later request is re-fetched
C11_Witness ==
    /\ failed
    /\ tabMessages = <<>>
    /\ lastEvent.kind = "request"
    /\ lastEvent.outcome = "issued"
----------------------------------------------------------------------------
(* Properties of the stores of the document side *)

\* a step that hands a payload to the document side
IsDelivery == deliveries' = deliveries + 1

RecordsUnchanged ==
    /\ mediaStore' = mediaStore
    /\ videoStore' = videoStore
    /\ imageStore' = imageStore
    /\ writes' = writes

\* C12: an empty object, null or a plain string given to processApiResponse
\* (a response body) or to processApiData (the data of an apiData message)
\* stores no record in any of the three Maps, and no error escapes
C12_MalformedStoresNothing ==
    [][LET input == delivered'
       IN  (IsDelivery /\ input.payload \in MalformedPayloads)
               => /\ RecordsUnchanged
                  /\ ~escaped'
                  /\ processApiResponse(input.payload) = JsonNull]_vars

\* null has reached processApiData, whose catch block logged the error, and
\* the Maps are still empty
C12_Witness ==
    /\ deliveries = MaxDeliveries
    /\ delivered.via = "message"
    /\ delivered.payload = JsonNull
    /\ caught > 0
    /\ writes = <<>>
    /\ DOMAIN mediaStore \cup DOMAIN videoStore \cup DOMAIN imageStore = {}

\* the posts of a payload of one of the three accepted shapes
IsAcceptedShape(payload) ==
    \/ payload.type = "array"
    \/ payload.type = "object" /\ payload.hasList
    \/ payload.type = "object" /\ IdTruthy(payload.id) /\ payload.mediaIsArray

PostsOf(payload) ==
    IF payload.type = "array" THEN payload.items
    ELSE IF payload.hasList THEN payload.list
    ELSE <<Post(payload.id, payload.mediaIsArray, payload.media)>>

\* the last post of the sequence with the id of the i-th
LastWithId(posts, i) ==
    CHOOSE j \in i..Len(posts) :
        /\ posts[j].id = posts[i].id
        /\ \A k \in (j + 1)..Len(posts) : posts[k].id # posts[i].id

\* C13: a response body that is an array, a {list: [...]} envelope or a
\* single object with an id and a media array leaves the Maps as the array
\* of the same posts would, and each post with an id is then the record
\* held under its id, whatever was held there before
C13_ShapesStoreTheirPosts ==
    [][LET input == delivered'
           posts == PostsOf(input.payload)
           asArray == processApiData(CurrentStores, JsonArray(posts), input.isForDm)
           postStore == IF input.isForDm THEN videoStore' ELSE mediaStore'
       IN  (IsDelivery /\ input.via = "service" /\ IsAcceptedShape(input.payload))
               => /\ mediaStore' = asArray.mediaStore
                  /\ videoStore' = asArray.videoStore
                  /\ imageStore' = asArray.imageStore
                  /\ \A i \in 1..Len(posts) :
                        IdTruthy(posts[i].id)
                            => /\ posts[i].id \in DOMAIN postStore
                               /\ postStore[posts[i].id] = posts[LastWithId(posts, i)]]_vars

\* a single object has replaced the record that an earlier payload stored
\* under the same id
C13_Witness ==
    /\ delivered.via = "service"
    /\ delivered.payload.type = "object"
    /\ ~delivered.payload.hasList
    /\ \E i, j \in 1..Len(writes) :
          /\ i < j
          /\ writes[i].store = "mediaStore" /\ writes[j].store = "mediaStore"
          /\ writes[i].key = writes[j].key
          /\ writes[i].value # writes[j].value
          /\ mediaStore[writes[j].key] = writes[j].value

\* the set calls made on imageStore so far
ImageWrites == {i \in 1..Len(writes) : writes[i].store = "imageStore"}

\* two preview URLs that differ in their query strings at most
SameUpToQuery(u, v) == \E b \in {SubSeq(u, 1, n) : n \in 0..Len(u)} :
    IsBeforeQuery(b, u) /\ IsBeforeQuery(b, v)

\* the last set call on imageStore made for a preview URL like u
LastWriteLike(u) ==
    CHOOSE i \in ImageWrites :
        /\ SameUpToQuery(writes[i].raw, u)
        /\ \A j \in ImageWrites : SameUpToQuery(writes[j].raw, u) => j <= i

----------------------------------------------------------------------------
(* Properties of URL resolution *)

\* nothing in the document gives the wrapper a URL
IsPlain(wrapper) == wrapper = PlainWrapper(wrapper.poster, wrapper.postId)

\* the fingerprints a media entry is recorded under
FingerprintsOf(media) ==
    {cleanUrl(u) : u \in {media.preview, media.squarePreview, media.thumb} \ {NoUrl}}

\* the quality map of a recorded video, and what resolving it should give
QualityMapOf(media) ==
    [q \in {t \in Qualities : (IF t = "full" THEN media.source
                              ELSE IF t = "240" THEN media.vs240 ELSE media.vs720) # NoUrl}
        |-> IF q = "full" THEN media.source
            ELSE IF q = "240" THEN media.vs240 ELSE media.vs720]

ExpectedUrl(map, quality) ==
    IF quality \in DOMAIN map THEN map[quality]
    ELSE IF "full" \in DOMAIN map THEN map["full"]
    ELSE NoUrl

\* C16: resolving the wrapper of a recorded video (a video entry of the
\* post the wrapper belongs to, recorded under the fingerprint of the
\* preview the wrapper shows) gives the URL of the preferred quality when
\* the video has one, else its full URL, else null
C16_ResolvesByQuality ==
    (resolution.called /\ resolution.at = deliveries /\ IsPlain(resolution.wrapper)
        /\ resolution.wrapper.postId \in DOMAIN mediaStore)
    => LET entry == mediaStore[resolution.wrapper.postId]
       IN  \A k \in 1..Len(entry.media) :
               (/\ entry.media[k].type = "video"
                /\ cleanUrl(resolution.wrapper.poster) \in FingerprintsOf(entry.media[k]))
               => resolution.url = ExpectedUrl(QualityMapOf(entry.media[k]), resolution.quality)

----------------------------------------------------------------------------
(* Properties of the page *)

\* C17: a container already carrying an injected control never receives a
\* second one: whatever injection entry points have run over the post, no
\* element of it (its tools bar, the post itself, its video wrapper) holds
\* more than one element with the marker class
C17_OneControlPerContainer ==
    post.present => (controls.tools <= 1 /\ controls.post <= 1 /\ controls.wrapper <= 1)

\* C18: on every detected route change (by the location poll or by a
\* popstate event) the teardown disconnects every observer the downloader
\* has connected and removes every injected control from the document, and
\* leaves a timer to re-establish observation and scanning
C18_TeardownOnRouteChange ==
    pageEvent.kind \in {"poll", "popstate"}
    => /\ ~observer /\ connectedMainObservers = 0 /\ ~intersectionObserver
       /\ controls = NoControls
       /\ reinitTimers > 0

\* C20: an unresolved video wrapper has one retry pending however many
\* injection passes run over it, and a retry that finds the URL leaves one
\* control in the wrapper
C20_BoundedRetry ==
    /\ retryTimers <= 1
    /\ (pageEvent.kind = "retryTimer" /\ post.present /\ wrapperUrl(CurrentDoc) # NoUrl)
       => controls.wrapper = 1

\* the steps of waitForContent: its entry from initialize or from a
\* re-initialisation, and its retry timers
ScanKinds == {"initialize", "reinit", "retry"}

RECURSIVE PendingFrom(_, _)
PendingFrom(timers, attempts) ==
    IF attempts = maxAttempts THEN 0
    ELSE timers[attempts] + PendingFrom(timers, attempts + 1)

\* the number of pending timers of waitForContent
PendingScans(timers) == PendingFrom(timers, 0)

StoreNames == {"mediaStore", "videoStore", "imageStore"}

\* the set calls made on one of the Maps
WritesTo(store) == {i \in 1..Len(writes) : writes[i].store = store}

\* every key ever written to a Map is in it, with the value of the last set
\* call made for that key
LastWriterWins ==
    \A store \in StoreNames :
        /\ \A i \in WritesTo(store) :
              /\ writes[i].key \in DOMAIN CurrentStores[store]
              /\ \/ CurrentStores[store][writes[i].key] = writes[i].value
                 \/ \E j \in WritesTo(store) : j > i /\ writes[j].key = writes[i].key
        /\ \A key \in DOMAIN CurrentStores[store] :
              \E i \in WritesTo(store) : writes[i].key = key

\* C15: in mediaStore, videoStore and imageStore a key once written is
\* there in every later state, whatever step is taken (a teardown on a route
\* change included), and the value held for a key is the value of the most
\* recent write for that key
C15_KeysStayLastWriteWins ==
    [][/\ \A store \in StoreNames :
              DOMAIN CurrentStores[store] \subseteq DOMAIN CurrentStores[store]'
       /\ LastWriterWins']_vars

\* a key has been written twice with different values, and the last step
\* was a teardown with the stores filled
C15_Witness ==
    /\ pageEvent.kind \in {"poll", "popstate"}
    /\ \E store \in StoreNames : \E i, j \in WritesTo(store) :
          i < j /\ writes[i].key = writes[j].key /\ writes[i].value # writes[j].value
----------------------------------------------------------------------------
(* Properties of the resolution entry points *)

\* the addresses among the sources of a video, of every label or of one
SourceUrls(sources, labels) ==
    { sources[i].src : i \in { j \in 1..Len(sources) :
                                 sources[j].src # NoUrl /\ sources[j].label \in labels } }

SourceLabels == {"original", "720", "240"}

\* the URLs an element declares in its data attributes
DeclaredUrls(data) ==
    { value \in {data.dataSrc, data.dataVideo, data.dataUrl, data.dataSource} :
        Includes(value, HttpWord) }

\* the URLs declared by the video of a container or by one of its nearest
\* ancestors, as many as levels says
DeclaredAround(container, levels) ==
    DeclaredUrls(container.data)
        \cup UNION { DeclaredUrls(container.ancestors[i]) :
                       i \in { j \in 1..Len(container.ancestors) : j <= levels } }

\* what each of the six strategies finds, in the order of the cascade: the
\* source labelled original, any source, the src of the video, the store
\* under the post's id, the declared data attributes, the nested scan
StrategiesFind(container, feedStore, quality) ==
    << SourceUrls(container.sources, {"original"}),
       SourceUrls(container.sources, SourceLabels),
       {container.src} \ {NoUrl},
       {storeLookup(queries(container), feedStore, quality)} \ {NoUrl},
       DeclaredAround(container, 3),
       SourceUrls(container.sources, SourceLabels) \cup ({container.src} \ {NoUrl}) >>

\* C21: extractVideoUrl returns the URL of the first strategy of the cascade
\* that finds one (original source, any source, the video's src, the store
\* lookup, the data attributes, the nested scan), and null only when none of
\* the six finds anything
C21_FirstStrategyWins ==
    (extraction.called /\ extraction.at = deliveries)
    => LET found == StrategiesFind(extraction.container, mediaStore, extraction.quality)
           succeeded == { k \in 1..6 : found[k] # {} }
       IN  IF succeeded = {} THEN extraction.url = NoUrl
           ELSE \E k \in succeeded :
                    /\ \A j \in succeeded : k <= j
                    /\ extraction.url \in found[k]

\* C23: the five resolution entry points give the same URL (or all give
\* null) for the same container and the same store
C23_EntryPointsAgree ==
    (extraction.called /\ extraction.at = deliveries)
    => /\ extraction.fromElement = extraction.url
       /\ extraction.fromDimensionPlayer = extraction.url
       /\ extraction.fromVideoJsPlayer = extraction.url
       /\ extraction.fromDataAttributes = extraction.url

\* the data attributes at a level around the video: 0 is the video itself,
\* 1 its parent, and so on
LevelData(container, level) ==
    IF level = 0 THEN container.data ELSE container.ancestors[level]

\* the levels of a container that declare a URL
DeclaringLevels(container) ==
    { level \in 0..Len(container.ancestors) :
        DeclaredUrls(LevelData(container, level)) # {} }

\* the first of data-src, data-video, data-url, data-source that holds a URL
FirstDeclared(data) ==
    LET order == <<data.dataSrc, data.dataVideo, data.dataUrl, data.dataSource>>
        holding == { k \in 1..4 : Includes(order[k], HttpWord) }
    IN  order[CHOOSE k \in holding : \A other \in holding : k <= other]

\* C30: extractVideoUrlFromDataAttributes returns the URL declared by the
\* nearest of the element and its three nearest ancestors that declares one,
\* in the order data-src, data-video, data-url, data-source, and null when
\* none of these four elements declares one, whatever higher ancestors declare
C30_ElementThenThreeAncestors ==
    extraction.called
    => LET near == { level \in DeclaringLevels(extraction.container) : level <= 3 }
       IN  IF near = {} THEN extraction.fromDataAttributes = NoUrl
           ELSE \E level \in near :
                    /\ \A other \in near : level <= other
                    /\ extraction.fromDataAttributes
                         = FirstDeclared(LevelData(extraction.container, level))

\* a URL taken from the third ancestor while the fourth declares another
C30_Witness ==
    /\ extraction.called
    /\ DeclaringLevels(extraction.container) = {3, 4}
    /\ extraction.fromDataAttributes \in DeclaredUrls(extraction.container.ancestors[3])
----------------------------------------------------------------------------
(* Properties of the settings *)

\* the items the executor has taken in: queued or handed to executeDownload
TakenIn ==
    { downloadQueue[i] : i \in 1..Len(downloadQueue) }
        \cup { loops[i].download : i \in 1..Len(loops) }

\* C22: a change of the settings store takes effect without a reload: every
\* resolution uses the quality the store holds at that time, and every item
\* the executor takes in is named by the stored autoCreateFolder; the only
\* other values used are the defaults (quality 'full', autoCreateFolder
\* true) of a store that could not be read
C22_SettingsChangeTakesEffect ==
    [][ /\ (resolution' # resolution)
            => resolution'.quality \in {storage.quality, DefaultSettings.quality}
        /\ \A item \in TakenIn' \ TakenIn :
              \E now \in Times, settings \in {storage, DefaultSettings} :
                  item.filename
                      = generateFilename(item.url, item.creator, item.type, settings, now)
      ]_vars
----------------------------------------------------------------------------
(* Properties of timers and triggers of the page *)

\* the steps in which a timer of the injection passes fires: a retry of
\* processVideoWrappers, the content-change debounce, a poll of waitForContent
TimerKinds == {"retryTimer", "changeTimer", "retry"}

\* C26: a retry, poll or scan timer set before a route-change teardown and
\* firing after it, before the re-initialisation timer, is a no-op: it adds
\* no control to the document the teardown has cleared and sets no further
\* timer
C26_StaleTimersAreNoOps ==
    [][ (reinitTimers > 0 /\ reinitTimers' > 0 /\ pageEvent'.kind \in TimerKinds)
        => /\ controls' = controls
           /\ retryTimers' <= retryTimers ]_vars
----------------------------------------------------------------------------
(* Grouping of the resolved assets of a container into buttons            *)
(* (groupMediaByType, createDownloadButtonContainer)                       *)

MaxAssets == 3

\* groupMediaByType that leaves the video and image groups filled beside mixed
groupMediaByTypeKeepsKinds(mediaToDownload) ==
    LET isVideo(asset) == includesVideo(asset.type)
        isImage(asset) == ~includesVideo(asset.type)
        video == SelectSeq(mediaToDownload, isVideo)
        image == SelectSeq(mediaToDownload, isImage)
        groups == IF video # <<>> /\ image # <<>>
                  THEN [video |-> video, image |-> image, mixed |-> video \o image]
                  ELSE [video |-> video, image |-> image, mixed |-> <<>>]
        nonEmpty(group) == group # <<>>
    IN  SelectSeq(<<groups.video, groups.image, groups.mixed>>, nonEmpty)

\* groupMediaByType: the values of groups in the order of its keys, the empty
\* ones filtered out
groupMediaByType(mediaToDownload) ==
    LET isVideo(asset) == includesVideo(asset.type)
        isImage(asset) == ~includesVideo(asset.type)
        video == SelectSeq(mediaToDownload, isVideo)
        image == SelectSeq(mediaToDownload, isImage)
        groups == IF video # <<>> /\ image # <<>>
                  THEN [video |-> <<>>, image |-> <<>>, mixed |-> video \o image]
                  ELSE [video |-> video, image |-> image, mixed |-> <<>>]
        nonEmpty(group) == group # <<>>
    IN  SelectSeq(<<groups.video, groups.image, groups.mixed>>, nonEmpty)

\* createDownloadButtonContainer: the container with one button for each
\* group, each button holding the assets of its group
createDownloadButtonContainer(mediaToDownload) ==
    [buttons |-> groupMediaByType(mediaToDownload)]

\* assets of one creator: two videos and two images
GroupAssets ==
    { Asset(UrlA, Bob, "download video"), Asset(UrlB, Bob, "download video"),
      Asset(UrlC, Bob, "download"), Asset(UrlS, Bob, "download") }

\* one call of createDownloadButtonContainer on the list drawn by InitGroup
GroupMediaCall ==
    /\ fnOut = <<>>
    /\ fnOut' = <<createDownloadButtonContainer(fnIn.mediaToDownload)>>
    /\ UNCHANGED <<fnIn, queueVars, apiVars, docVars>>

\* createDownloadButtonContainer on every list of up to MaxAssets assets
InitGroup ==
    /\ QueueIdle /\ ApiIdle /\ DocIdle
    /\ fnOut = <<>>
    /\ fnIn \in { [mediaToDownload |-> list] : list \in StringsUpTo(GroupAssets, MaxAssets) }

NextGroup == GroupMediaCall

SpecGroup == InitGroup /\ [][NextGroup]_vars

\* how often an asset occurs in a list
Occurrences(asset, list) == Cardinality({ i \in 1..Len(list) : list[i] = asset })

\* C28: a non-empty list of assets gives one group, and so one button, that
\* holds every asset of the list as often as the list does, the videos
\* before the images
C28_OneGroupOfAll ==
    (fnOut # <<>> /\ fnIn.mediaToDownload # <<>>)
    => LET buttons == fnOut[1].buttons
       IN  /\ Len(buttons) = 1
           /\ \A asset \in GroupAssets :
                 Occurrences(asset, buttons[1]) = Occurrences(asset, fnIn.mediaToDownload)
           /\ \A i, j \in 1..Len(buttons[1]) :
                 (includesVideo(buttons[1][j].type) /\ ~includesVideo(buttons[1][i].type))
                 => j < i

\* a list that starts with an image and holds a video has been grouped
C28_Witness ==
    /\ fnOut # <<>>
    /\ Len(fnIn.mediaToDownload) >= 2
    /\ ~includesVideo(fnIn.mediaToDownload[1].type)
    /\ \E i \in 1..Len(fnIn.mediaToDownload) : includesVideo(fnIn.mediaToDownload[i].type)
    /\ includesVideo(fnOut[1].buttons[1][1].type)
----------------------------------------------------------------------------
(* The media of a post with its layout (extractMediaFromPost,             *)
(* isVideoThumbnail)                                                       *)

MaxImages == 1

\* the top and left of getBoundingClientRect()
Rect(top, left) == [top |-> top, left |-> left]

\* a div.video-wrapper of the post: where it lies and what it holds
LayoutWrapper(rect, wrapper) == [wrapper |-> wrapper, rect |-> rect]

\* an img.b-post__media__img of the post
LayoutImage(src, rect) == [src |-> src, rect |-> rect]

PostLayout(wrappers, images) == [wrappers |-> wrappers, images |-> images]

\* Math.abs
Abs(x) == IF x < 0 THEN -x ELSE x

\* the distance below which an image counts as the preview of a wrapper
thumbnailDistance == 100

ThumbWord == <<"t","h","u","m","b">>
PreviewWord == <<"p","r","e","v","i","e","w">>
SmallWord == <<"s","m","a","l","l">>

\* isVideoThumbnail that takes a distance of exactly 100 as near
isVideoThumbnailInclusive(img, videoWrappers) ==
    \/ \E i \in 1..Len(videoWrappers) :
          Abs(videoWrappers[i].rect.top - img.rect.top)
              + Abs(videoWrappers[i].rect.left - img.rect.left) <= thumbnailDistance
    \/ Includes(img.src, ThumbWord)
    \/ Includes(img.src, PreviewWord)
    \/ Includes(img.src, SmallWord)

\* isVideoThumbnail
isVideoThumbnail(img, videoWrappers) ==
    \/ \E i \in 1..Len(videoWrappers) :
          Abs(videoWrappers[i].rect.top - img.rect.top)
              + Abs(videoWrappers[i].rect.left - img.rect.left) < thumbnailDistance
    \/ Includes(img.src, ThumbWord)
    \/ Includes(img.src, PreviewWord)
    \/ Includes(img.src, SmallWord)

\* extractMediaFromPost on a post with any number of wrappers and images
extractMediaFromPostLayout(layout, feedStore, quality) ==
    LET resolved == [i \in 1..Len(layout.wrappers) |->
                        extractVideoUrl(layout.wrappers[i].wrapper, feedStore, quality)]
        found(url) == url # NoUrl
        videoUrls == SelectSeq(resolved, found)
        hasVideo == videoUrls # <<>>
        kept(img) == /\ img.src # NoUrl
                     /\ hasVideo => ~isVideoThumbnail(img, layout.wrappers)
        images == SelectSeq(layout.images, kept)
    IN  [i \in 1..Len(videoUrls) |-> Asset(videoUrls[i], Bob, "download video")]
            \o [i \in 1..Len(images) |-> Asset(images[i].src, Bob, "download")]

\* a wrapper whose video has its address, and one still without
ResolvedWrapper == queries(Container(NoId, TRUE, UrlV, <<>>, NoData, <<NoData>>))
UnresolvedWrapper == queries(EmptyContainer)

\* the wrappers of a post: none, one, or two of which one resolves
LayoutWrappers ==
    { <<>>,
      <<LayoutWrapper(Rect(0, 0), ResolvedWrapper)>>,
      <<LayoutWrapper(Rect(0, 0), UnresolvedWrapper)>>,
      <<LayoutWrapper(Rect(0, 0), ResolvedWrapper),
        LayoutWrapper(Rect(0, 300), UnresolvedWrapper)>>,
      <<LayoutWrapper(Rect(0, 0), UnresolvedWrapper),
        LayoutWrapper(Rect(0, 300), ResolvedWrapper)>> }

\* images without a src, with a plain address and with addresses that hold
\* one of the three words, at places 39 to 400 away from the first wrapper
LayoutImages ==
    { LayoutImage(src, Rect(top, left)) :
        src \in { NoUrl, Http(<<"/","i">>), Http(<<"/">> \o ThumbWord),
                  Http(<<"/">> \o PreviewWord), Http(<<"/">> \o SmallWord) },
        top \in {0, 60}, left \in {39, 40, 340} }

\* one call of extractMediaFromPost on the post drawn by InitLayout
ExtractMediaCall ==
    /\ fnOut = <<>>
    /\ fnOut' = <<extractMediaFromPostLayout(fnIn.layout, mediaStore, docQuality)>>
    /\ UNCHANGED <<fnIn, queueVars, apiVars, docVars>>

InitLayout ==
    /\ QueueIdle /\ ApiIdle /\ DocIdle
    /\ fnOut = <<>>
    /\ fnIn \in { [layout |-> PostLayout(wrappers, images)] :
                    wrappers \in LayoutWrappers,
                    images \in StringsUpTo(LayoutImages, MaxImages) }

NextLayout == ExtractMediaCall

SpecLayout == InitLayout /\ [][NextLayout]_vars

\* an image lies within 100 layout units of some video wrapper of the post
NearSomeWrapper(img, layout) ==
    \E w \in { layout.wrappers[i] : i \in 1..Len(layout.wrappers) } :
        Abs(w.rect.top - img.rect.top) + Abs(w.rect.left - img.rect.left) < 100

NamedLikeThumbnail(img) ==
    \E word \in {ThumbWord, PreviewWord, SmallWord} : Includes(img.src, word)

\* C29: with a resolved video in the post an image that has a source is
\* left out exactly when it lies within 100 layout units of some video
\* wrapper or its URL contains thumb, preview or small; without a resolved
\* video every image that has a source is taken
C29_ThumbnailRule ==
    fnOut # <<>>
    => LET layout == fnIn.layout
           isVideo(asset) == asset.type = "download video"
           isImage(asset) == asset.type = "download"
           hasVideo == SelectSeq(fnOut[1], isVideo) # <<>>
           taken == SelectSeq(fnOut[1], isImage)
           due(img) == /\ img.src # NoUrl
                       /\ hasVideo => ~(NearSomeWrapper(img, layout)
                                          \/ NamedLikeThumbnail(img))
           expected == SelectSeq(layout.images, due)
       IN  /\ hasVideo <=> \E i \in 1..Len(layout.wrappers) :
                               layout.wrappers[i].wrapper = ResolvedWrapper
           /\ Len(taken) = Len(expected)
           /\ \A i \in 1..Len(taken) : taken[i].url = expected[i].src

\* an image exactly 100 away from the one wrapper of a post whose video
\* resolves has been taken
C29_Witness ==
    /\ fnOut # <<>>
    /\ Len(fnIn.layout.wrappers) = 1 /\ Len(fnIn.layout.images) = 1
    /\ fnIn.layout.wrappers[1].wrapper = ResolvedWrapper
    /\ fnIn.layout.images[1].rect = Rect(60, 40)
    /\ Len(fnOut[1]) = 2
----------------------------------------------------------------------------
(* Properties of the debounces                                            *)

\* batch j of the log is the last of its burst: no batch of the observer
\* follows it less than the wait later
LastOfBurst(batches, j) ==
    \A k \in 1..Len(batches) :
        ~ \/ (k > j /\ batches[k] = batches[j])
          \/ (batches[k] > batches[j] /\ batches[k] < batches[j] + waitTicks)

\* the passes of one observer are those of its bursts: each pass runs the
\* wait after a batch that ends a burst, no two passes run for one burst,
\* and every burst that ended more than the wait ago had its pass
Coalesced(batches, passes) ==
    /\ \A i \in 1..Len(passes) :
          \E j \in 1..Len(batches) :
              batches[j] + waitTicks = passes[i] /\ LastOfBurst(batches, j)
    /\ \A i, k \in 1..Len(passes) : i # k => passes[i] # passes[k]
    /\ \A j \in 1..Len(batches) :
          (LastOfBurst(batches, j) /\ clock > batches[j] + waitTicks)
              => \E i \in 1..Len(passes) : passes[i] = batches[j] + waitTicks

\* C24: batches that are not immediate triggers are coalesced: a burst of
\* batches, each less than 500 ms after the one before, gives exactly one
\* injection pass, 500 ms after the last batch, for the observer of
\* startObserving and for the observer of setupMutationObserver
C24_BurstsCoalesce ==
    /\ Coalesced(batchLog.observer, passLog.observer)
    /\ Coalesced(batchLog.mainObserver, passLog.mainObserver)

\* the same of the observer of setupMutationObserver alone
MainObserverCoalesces == Coalesced(batchLog.mainObserver, passLog.mainObserver)

\* a burst of two batches of the observer of setupMutationObserver had its pass
MainObserverBurstPassed ==
    /\ Len(batchLog.mainObserver) = 2
    /\ batchLog.mainObserver[2] < batchLog.mainObserver[1] + waitTicks
    /\ passLog.mainObserver = <<batchLog.mainObserver[2] + waitTicks>>
----------------------------------------------------------------------------
(* Properties of the lightbox and of the immediate triggers               *)

\* the step inserts a post while an observer is connected
PostInserted == ~post.present /\ post'.present /\ (observer \/ connectedMainObservers > 0)

\* the step inserts the viewer while an observer is connected
ViewerInserted == ~viewer.open /\ viewer'.open /\ connectedMainObservers > 0

\* the step makes another slide of the viewer the active one while an
\* observer of setupMutationObserver is connected
SlideActivated ==
    /\ viewer.open /\ viewer'.open
    /\ viewer'.active # viewer.active
    /\ connectedMainObservers > 0

\* C25: an inserted post, an inserted viewer and a slide whose aria-hidden
\* becomes 'false' are each resolved anew in the step that reports the
\* mutation, before any timer fires: the post with media has its control,
\* the top bar of the viewer has the control of the active slide
C25_ImmediateTriggers ==
    [][ /\ (PostInserted /\ extractMediaFromPost(Doc(post', NoControls, 0, FALSE)) # <<>>)
            => hasControl(Doc(post', controls', 0, FALSE))
        /\ (ViewerInserted /\ activeUrl(viewer') # NoUrl)
            => topBar' = <<activeUrl(viewer')>>
        /\ (SlideActivated /\ activeUrl(viewer') # NoUrl)
            => topBar' = <<activeUrl(viewer')>> ]_vars

\* the same of the inserted post and the activated slide alone
PostAndSlideImmediate ==
    [][ /\ (PostInserted /\ extractMediaFromPost(Doc(post', NoControls, 0, FALSE)) # <<>>)
            => hasControl(Doc(post', controls', 0, FALSE))
        /\ (SlideActivated /\ activeUrl(viewer') # NoUrl)
            => topBar' = <<activeUrl(viewer')>> ]_vars

\* the step processes a navigation of the lightbox: the callback for the
\* slide whose aria-hidden became 'false', or the 100 ms timer set by an
\* arrow key or by a slide observer
NavigationProcessed ==
    /\ viewer.open /\ viewer'.open
    /\ \/ SlideActivated
       \/ lightboxTimers'.update < lightboxTimers.update

\* C27 as stated: once a navigation of the lightbox has been processed the
\* top bar holds exactly one control, bound to the media URL of the active slide
C27_ExactlyOneControl ==
    [][ NavigationProcessed
        => (Len(topBar') = 1 /\ topBar'[1] = activeUrl(viewer')) ]_vars

\* C27: once a navigation of the lightbox has been processed the top bar
\* holds at most one control: exactly one, bound to the media URL of the
\* active slide, when that slide has a media URL, and none when it has not;
\* never a control bound to a slide shown earlier
C27_AtMostOneControl ==
    [][ NavigationProcessed
        => topBar' = (IF activeUrl(viewer') # NoUrl THEN <<activeUrl(viewer')>> ELSE <<>>) ]_vars

\* the second slide is shown after the first, each with its own media, and
\* the top bar holds the control of the second
C27_Witness ==
    /\ viewer.open /\ viewer.active = 2
    /\ viewer.slides[1] # NoUrl /\ viewer.slides[2] # NoUrl
    /\ viewer.slides[1] # viewer.slides[2]
    /\ topBar = <<viewer.slides[2]>>
    /\ lightboxTimers.update = 0
----------------------------------------------------------------------------
(* Properties of the replayed headers                                     *)

\* header names are compared without regard to letter case: the name in
\* lower case, for the names the requests of the model carry
LowerCaseName(name) ==
    CASE name \in {"User-Agent", "user-agent"} -> "user-agent"
      [] name \in {"Accept", "accept"} -> "accept"
      [] name \in {"DNT", "dnt"} -> "dnt"
      [] name = "Sec-Fetch-Site" -> "sec-fetch-site"
      [] name = "Sec-Fetch-Mode" -> "sec-fetch-mode"
      [] name = "Sec-Fetch-Dest" -> "sec-fetch-dest"
      [] name = "Sec-Fetch-User" -> "sec-fetch-user"
      [] OTHER -> name

Denylisted(name) == \E denied \in ExcludedHeaders : LowerCaseName(denied) = LowerCaseName(name)

\* the headers object holds the captured headers minus the denylist
CapturedMinusDenylist(headers, requestHeaders) ==
    /\ \A n \in DOMAIN headers : ~Denylisted(n)
    /\ \A i \in 1..Len(requestHeaders) :
          ~Denylisted(requestHeaders[i].name)
              => /\ requestHeaders[i].name \in DOMAIN headers
                 /\ headers[requestHeaders[i].name] = requestHeaders[i].value
    /\ \A n \in DOMAIN headers :
          \E i \in 1..Len(requestHeaders) : requestHeaders[i] = Header(n, headers[n])

\* C31: the headers replayed on the re-fetch and forwarded in the apiData
\* message are the captured headers minus the denylist: no header with a
\* denylisted name, in whatever letter case, is replayed, and every other
\* captured header is kept with its value
C31_ReplaysCapturedMinusDenylist ==
    [][ /\ (Len(refetchLog') > Len(refetchLog))
            => CapturedMinusDenylist(fetches'[Len(fetches')].headers,
                                     refetchLog'[Len(refetchLog')].details.requestHeaders)
        /\ (Len(tabMessages') > Len(tabMessages))
            => \A n \in DOMAIN tabMessages'[Len(tabMessages')].headers : ~Denylisted(n) ]_vars

\* the same of the names of the denylist in the letter case the code spells
\* them in, and of the last captured value of each name
ReplaysCapturedMinusExactNames ==
    [][ (Len(refetchLog') > Len(refetchLog))
            => LET headers == fetches'[Len(fetches')].headers
                   requestHeaders == refetchLog'[Len(refetchLog')].details.requestHeaders
               IN  /\ \A n \in DOMAIN headers : n \notin ExcludedHeaders
                   /\ \A i \in 1..Len(requestHeaders) :
                         requestHeaders[i].name \notin ExcludedHeaders
                             => requestHeaders[i].name \in DOMAIN headers ]_vars
----------------------------------------------------------------------------
(* Properties of the queue under suspension                               *)

\* C32: isProcessingQueue is true exactly while a drain loop is active, also
\* when cleanup() runs while a transfer or cool-down is pending; a second
\* drain loop is never started while another is active
C32_FlagMeansOneLoop ==
    /\ isProcessingQueue <=> (Len(loops) > 0)
    /\ Len(loops) <= 1

\* two drain loops are active at once
TwoLoopsActive == Len(loops) = 2
----------------------------------------------------------------------------
(* Properties of the observers and pollers across route changes           *)

\* C33: at most one observer created by setupMutationObserver is connected
\* at any time, and a teardown leaves none connected, also when the location
\* poll and a popstate event each react to the same navigation
C33_OneMainObserver ==
    /\ connectedMainObservers <= 1
    /\ pageEvent.kind \in {"poll", "popstate"} => connectedMainObservers = 0

\* one navigation was made and two observers are connected
TwoObserversAfterOneNavigation == navigations = 1 /\ connectedMainObservers = 2

\* C34: at most one checkPhotoSwipe loop of setupPhotoSwipeHandler is
\* pending at any time, however often content is detected or inserted or
\* the route changes
C34_OnePoller == pollers <= 1

\* two loops are pending on a page that was never left
TwoPollersWithoutNavigation == pollers = 2 /\ navigations = 0
----------------------------------------------------------------------------
(* Properties of the filename of a queued item                            *)

\* an item the executor holds stays as it was appended
ItemsKeepTheirFilename == \A a \in TakenIn, b \in TakenIn' : a.id = b.id => a = b

\* C35 as stated: the filename of an item is fixed when the item is
\* appended, and every item is named with the autoCreateFolder the store
\* holds when the settings of its request are read
C35_NamedByStoreAtRead ==
    [][ /\ ItemsKeepTheirFilename
        /\ \A item \in TakenIn' \ TakenIn :
              \E now \in Times :
                  item.filename
                      = generateFilename(item.url, item.creator, item.type, storage, now) ]_vars

\* C35: the filename of an item is fixed when the item is appended: a later
\* change of autoCreateFolder leaves every item the executor holds unchanged;
\* a request whose settings read succeeds is named with the value the store
\* holds at that read, and a request whose read fails is named with the
\* default (autoCreateFolder true)
C35_FilenameFixedAtAppend ==
    [][ /\ ItemsKeepTheirFilename
        /\ \A h \in handlers, readFails \in BOOLEAN, now \in Times :
              SettingsRead(h, readFails, now)
                  => \E item \in TakenIn' \ TakenIn :
                        /\ item.id = h.id
                        /\ item.filename
                              = generateFilename(h.url, h.creator, h.type,
                                    IF readFails THEN DefaultSettings ELSE storage, now) ]_vars

\* the name of the item with folders on differs from its name with them off
FolderMatters(item) ==
    \A now \in Times :
        generateFilename(item.url, item.creator, item.type, [autoCreateFolder |-> TRUE], now)
            # generateFilename(item.url, item.creator, item.type, [autoCreateFolder |-> FALSE], now)

NamedWith(item, folder) ==
    \E now \in Times :
        item.filename
            = generateFilename(item.url, item.creator, item.type, [autoCreateFolder |-> folder], now)

\* folders were switched off between two requests: the executor holds the
\* earlier item under its folder and the later one without
C35_Witness ==
    /\ ~storage.autoCreateFolder
    /\ \E a \in TakenIn, b \in TakenIn :
          /\ a.id < b.id
          /\ FolderMatters(a) /\ FolderMatters(b)
          /\ NamedWith(a, TRUE) /\ NamedWith(b, FALSE)
----------------------------------------------------------------------------
(* Properties of a clicked control                                        *)

\* the requests of the last click that have settled, by place in the group
SettledPlaces == {sentLog[j].place : j \in {k \in 1..Len(sentLog) : sentLog[k].outcome # "sent"}}

\* the requests were sent one at a time in the order of the group: each is
\* sent, then settles, then the next is sent
OneAtATimeInOrder ==
    \A j \in 1..Len(sentLog) :
        /\ sentLog[j].place = (j + 1) \div 2
        /\ (sentLog[j].outcome = "sent") <=> (j % 2 = 1)

Restored == ~button.disabled /\ button.label = originalLabel(button.kind, button.group)

\* C36: a clicked control stays disabled until every request of its group
\* has been acknowledged or has failed; the requests are sent one at a time
\* in the order of the group, each after the one before it settled, a failed
\* one not keeping the later ones from being sent; and the control is in the
\* end enabled again under the label it was created with
C36_DisabledUntilSettled ==
    /\ [](/\ button.awaited > 0 => button.disabled
          /\ ~button.disabled => SettledPlaces = 1..Len(button.group)
          /\ ~button.disabled => Restored
          /\ OneAtATimeInOrder)
    /\ (button.disabled ~> Restored)

\* a control of two assets is enabled again after its first request failed
\* and its second was acknowledged
C36_Witness ==
    /\ Restored
    /\ Len(button.group) = 2
    /\ Len(sentLog) = 4
    /\ sentLog[2].outcome = "lastError"
    /\ sentLog[4].outcome = "response"

----------------------------------------------------------------------------
(* C37: chat records and feed records are kept apart *)

\* the store.set calls of the step just taken
NewWrites == { writes'[i] : i \in (Len(writes) + 1)..Len(writes') }

\* the store processApiData picks for a delivery
PostStoreOf(isForDm) == IF isForDm THEN "videoStore" ELSE "mediaStore"

\* every post record a delivery sets goes to the store of its isForDm flag
RecordsGoToTheirStore ==
    \A w \in NewWrites :
        w.store \in {"mediaStore", "videoStore"} => w.store = PostStoreOf(delivered'.isForDm)

\* the wrapper reaches the post-id lookup: no video.js source resolves it
FallsThrough(wrapper) ==
    ~wrapper.hasVjs
        \/ (wrapper.original = NoUrl /\ wrapper.anySource = NoUrl /\ wrapper.vjsSrc = NoUrl)

\* what the steps after the lookup find in the document
DocumentUrl(wrapper) ==
    firstUrl(<<wrapper.dataSrc, wrapper.dataVideo, wrapper.wrapperDataSrc,
               wrapper.nestedSrc, wrapper.looseData>>)

\* the records ever set in a post store under an id
RecordsSet(store, id) ==
    { writes[i].value : i \in { j \in DOMAIN writes : writes[j].store = store /\ writes[j].key = id } }

\* the URLs the lookup can give from the records of a store
LookupUrls(store, wrapper, quality) ==
    { firstVideoUrl(record.media, quality) :
        record \in { r \in RecordsSet(store, wrapper.postId) : r.mediaIsArray } } \ {NoUrl}

\* a resolution that reached the lookup gave a URL of a record set in the
\* feed store, or what the document holds
LookupReadsFeedStore ==
    (resolution.called /\ FallsThrough(resolution.wrapper)) =>
        resolution.url \in LookupUrls("mediaStore", resolution.wrapper, resolution.quality)
                              \cup {DocumentUrl(resolution.wrapper)}

\* C37: post records delivered with isForDm = true are set only in videoStore
\* and those delivered with isForDm = false only in mediaStore; the post-id
\* lookup of extractVideoUrl gives only URLs of records set in mediaStore, so
\* never one that only a chat delivery recorded
C37_ChatAndFeedApart ==
    /\ [][RecordsGoToTheirStore]_vars
    /\ [][(mediaStore' # mediaStore => ~delivered'.isForDm)
            /\ (videoStore' # videoStore => delivered'.isForDm)]_vars
    /\ []LookupReadsFeedStore

\* a post that only a chat delivery recorded, with a video the lookup would
\* give, and a wrapper of that post resolved to nothing
C37_Witness ==
    /\ resolution.called /\ resolution.at = deliveries
    /\ resolution.wrapper.postId \in DOMAIN videoStore
    /\ resolution.wrapper.postId \notin DOMAIN mediaStore
    /\ LookupUrls("videoStore", resolution.wrapper, resolution.quality) # {}
    /\ FallsThrough(resolution.wrapper)
    /\ resolution.url = NoUrl

----------------------------------------------------------------------------
(* C38: the wrappers of one post and the post-id lookup *)

\* the div.video-wrapper elements of one post: two wrappers of the same post
PostWrapperLists ==
    UNION { { <<LayoutWrapper(Rect(0, 0), a), LayoutWrapper(Rect(0, 300), b)>> :
                b \in { w \in ResolveWrappers : w.postId = a.postId /\ w # a } } :
            a \in ResolveWrappers }

PostCall(layout, quality, at) == [quality |-> quality, at |-> at, layout |-> layout]

\* extractMediaFromPost on a post of the document, with the stores and the
\* quality setting as they are
ExtractPostVideos(wrappers) ==
    /\ fnIn' = PostCall(PostLayout(wrappers, <<>>), docQuality, deliveries)
    /\ fnOut' = <<extractMediaFromPostLayout(PostLayout(wrappers, <<>>), mediaStore, docQuality)>>
    /\ UNCHANGED <<queueVars, apiVars, docVars>>

\* posts recorded from the feed and from chats, and posts gone over by
\* extractMediaFromPost
NextPostVideos ==
    \/ \E payload \in ResolvePayloads, isForDm \in BOOLEAN : RecordResponse(payload, isForDm)
    \/ \E quality \in Qualities : loadSettings(quality)
    \/ \E wrappers \in PostWrapperLists : ExtractPostVideos(wrappers)

SpecPostVideos == Init /\ [][NextPostVideos]_vars

\* the URL a media entry has at a tier
TierUrl(media, quality) ==
    CASE quality = "240" -> media.vs240
      [] quality = "720" -> media.vs720
      [] OTHER -> media.source

\* the places of the media list with a video entry that has a URL at the
\* preferred tier or at full
GivingPlaces(mediaList, quality) ==
    { k \in DOMAIN mediaList :
        /\ mediaList[k].type = "video"
        /\ (TierUrl(mediaList[k], quality) # NoUrl \/ mediaList[k].source # NoUrl) }

\* the URL of the entry at a place: the preferred tier, else full
GivenAt(mediaList, k, quality) ==
    IF TierUrl(mediaList[k], quality) # NoUrl THEN TierUrl(mediaList[k], quality)
    ELSE mediaList[k].source

MinOf(S) == CHOOSE k \in S : \A j \in S : k <= j

\* the last call of extractMediaFromPost saw the stores as they are
PostVideosCurrent ==
    /\ fnOut # <<>>
    /\ "layout" \in DOMAIN fnIn
    /\ fnIn.at = deliveries

\* the media list the lookup reads for the post of the last call
LookedUpMedia ==
    LET id == fnIn.layout.wrappers[1].wrapper.postId
    IN  IF IdTruthy(id) /\ id \in DOMAIN mediaStore /\ mediaStore[id].mediaIsArray
        THEN mediaStore[id].media ELSE <<>>

\* C38: for a post the feed store holds with a video entry that has a URL
\* at the preferred tier or at full, every wrapper of the post that reaches
\* the post-id lookup resolves to the URL of the first such entry, whichever
\* wrapper it is: two such wrappers of one post resolve to the same URL
C38_SamePostSameUrl ==
    PostVideosCurrent =>
        LET wrappers == fnIn.layout.wrappers
            places == GivingPlaces(LookedUpMedia, fnIn.quality)
        IN  places # {} =>
                /\ Len(fnOut[1]) = Len(wrappers)
                /\ \A i \in DOMAIN wrappers :
                     FallsThrough(wrappers[i].wrapper) =>
                        fnOut[1][i].url = GivenAt(LookedUpMedia, MinOf(places), fnIn.quality)
                /\ \A i, j \in DOMAIN wrappers :
                     (FallsThrough(wrappers[i].wrapper) /\ FallsThrough(wrappers[j].wrapper))
                        => fnOut[1][i].url = fnOut[1][j].url

\* two wrappers of one post that show different previews, the post recorded
\* with two videos of different URLs, and both wrappers resolved to one URL
C38_Witness ==
    /\ PostVideosCurrent
    /\ Len(fnIn.layout.wrappers) = 2
    /\ fnIn.layout.wrappers[1].wrapper.poster # fnIn.layout.wrappers[2].wrapper.poster
    /\ FallsThrough(fnIn.layout.wrappers[1].wrapper)
    /\ FallsThrough(fnIn.layout.wrappers[2].wrapper)
    /\ \E k, l \in GivingPlaces(LookedUpMedia, fnIn.quality) :
          GivenAt(LookedUpMedia, k, fnIn.quality) # GivenAt(LookedUpMedia, l, fnIn.quality)
    /\ Len(fnOut[1]) = 2
    /\ fnOut[1][1].url = fnOut[1][2].url

----------------------------------------------------------------------------
(* C39: an apiData message goes to the tab of its request *)

\* what ties a message to its request: the tab, the replayed headers and
\* the isForDm flag of the URL
Route(tabId, headers, isForDm) == [tabId |-> tabId, headers |-> headers, isForDm |-> isForDm]

RouteOfRequest(entry) ==
    Route(entry.details.tabId, extractHeaders(entry.details.requestHeaders),
          Includes(entry.details.url, MessagesWord))
RouteOfFetch(fetch) == Route(fetch.tabId, fetch.headers, Includes(fetch.url, MessagesWord))
RouteOfMessage(message) == Route(message.tabId, message.headers, message.isForDm)

\* the re-fetches issued for a route, those still in flight and the messages sent
IssuedFor(route) ==
    Cardinality({ i \in DOMAIN refetchLog : RouteOfRequest(refetchLog[i]) = route })
InFlightFor(route) ==
    Cardinality({ i \in DOMAIN fetches : RouteOfFetch(fetches[i]) = route })
SentFor(route) ==
    Cardinality({ i \in DOMAIN tabMessages : RouteOfMessage(tabMessages[i]) = route })

\* every message carries the tab and the headers of one intercepted request
\* of a tab, and no request has more than one message
OneMessagePerRequest ==
    \A i \in DOMAIN tabMessages :
        LET route == RouteOfMessage(tabMessages[i])
        IN  /\ route.tabId >= 0
            /\ SentFor(route) + InFlightFor(route) <= IssuedFor(route)

\* a settling sends at most one message, to the tab of the re-fetch that
\* settled and with its headers, whatever else is in flight
SettlesToItsTab ==
    \A i \in DOMAIN fetches :
        (fetches' = RemoveAt(fetches, i) /\ tabMessages' # tabMessages)
            => \E j \in DOMAIN fetches :
                  /\ fetches' = RemoveAt(fetches, j)
                  /\ tabMessages' = Append(tabMessages, tabMessages'[Len(tabMessages')])
                  /\ RouteOfMessage(tabMessages'[Len(tabMessages')]) = RouteOfFetch(fetches[j])

\* C39: an apiData message produced from a request intercepted in tab T
\* carries the headers replayed for that request and is sent to tab T alone,
\* under any interleaving of re-fetches of several tabs, and each eligible
\* request produces at most one message
C39_MessageToItsTab == []OneMessagePerRequest /\ [][SettlesToItsTab]_vars

\* re-fetches of two tabs with different headers in flight together, settled
\* in the other order, each message sent to the tab of its request
C39_Witness ==
    /\ Len(refetchLog) = 2 /\ Len(tabMessages) = 2 /\ fetches = <<>>
    /\ refetchLog[1].details.tabId = 1 /\ refetchLog[2].details.tabId = 2
    /\ RouteOfRequest(refetchLog[1]).headers # RouteOfRequest(refetchLog[2]).headers
    /\ RouteOfMessage(tabMessages[1]) = RouteOfRequest(refetchLog[2])
    /\ RouteOfMessage(tabMessages[2]) = RouteOfRequest(refetchLog[1])
====
